---- MODULE Spec2Model ----
(***************************************************************************)
(* Session pipeline of summaid-be: DocumentProcessingService of            *)
(* src/services/document.service.ts (the Supabase variant, lines 60-621).  *)
(*                                                                         *)
(* A run of initiateProcessing is a process that moves from one await to   *)
(* the next; the session store, the file transport, the native parsers,   *)
(* the OCR service and the chat model are its environment, so each of      *)
(* their answers is drawn from a small set.  Strings are sequences of      *)
(* tokens, so that concatenation, trim() and length are computed.          *)
(***************************************************************************)
EXTENDS Integers, Sequences, FiniteSets, TLC

\* ---------------------------------------------------------------- bounds
MaxFiles == 2

\* ------------------------------------------------------------- universe
Runs == {"r1", "r2"}
ExistingId == "s1"
SessionIds == {"s1", "s2"}
OwnerId == "u1"
Users == {"u1", "u2"}

None == << >>
Some(x) == << x >>

Whitespace == {" ", "\n"}

RECURSIVE TrimStart(_)
TrimStart(s) ==
  IF s = << >> THEN << >>
  ELSE IF Head(s) \in Whitespace THEN TrimStart(Tail(s)) ELSE s

RECURSIVE TrimEnd(_)
TrimEnd(s) ==
  IF s = << >> THEN << >>
  ELSE IF s[Len(s)] \in Whitespace THEN TrimEnd(SubSeq(s, 1, Len(s) - 1)) ELSE s

Trim(s) == TrimEnd(TrimStart(s))

RECURSIVE Join(_, _)
Join(list, sep) ==
  IF list = << >> THEN << >>
  ELSE IF Len(list) = 1 THEN list[1]
  ELSE list[1] \o sep \o Join(Tail(list), sep)

\* media types as <<type, subtype>>
MimePng == << "image", "png" >>
MimePdf == << "application", "pdf" >>
MimeDocx == << "application", "vnd.openxmlformats-officedocument.wordprocessingml.document" >>
MimePptx == << "application", "vnd.openxmlformats-officedocument.presentationml.presentation" >>
MimeText == << "text", "plain" >>
MimeOther == << "application", "octet-stream" >>
\* the media types a session's files are drawn from
MimeTypes == {MimePng, MimePdf, MimeDocx, MimeText}

FileNames == << "f1", "f2", "f3", "f4" >>

\* the payloads a transport can deliver, as the text their bytes decode to
Payloads == {<< " " >>, << "a" >>}
StrategyOutcomes ==
  {[kind |-> "throw", data |-> << >>], [kind |-> "nodata", data |-> << >>],
   [kind |-> "data", data |-> << >>]}
    \cup {[kind |-> "data", data |-> p] : p \in Payloads}

NativeTexts == {<< >>, << "b", "c" >>}
NativeOutcomes ==
  {[ok |-> FALSE, text |-> << >>]} \cup {[ok |-> TRUE, text |-> t] : t \in NativeTexts}

OcrTexts == {<< >>, << "d" >>}
OcrOutcomes ==
  {[ok |-> FALSE, text |-> << >>]} \cup {[ok |-> TRUE, text |-> t] : t \in OcrTexts}

LlmOutcomes == {"ok", "unparsable", "throw"}
\* an update answers { error: null } once applied, or an error and no change
StoreOutcomes == {"ok", "error"}

Preferences ==
  [generateSummary : BOOLEAN, generateFlashcards : BOOLEAN, generateStudyGuide : BOOLEAN]

Terminal == {"completed", "completed_with_errors", "failed"}
Success == {"completed", "completed_with_errors"}

\* ---------------------------------------------------------------- state
VARIABLES
  session,            \* the store's record of session ExistingId
  budget,             \* invocations each caller may still make
  pc,                 \* position of each run
  sessionId, userId,  \* arguments of the run
  sessionData,        \* the record the run loaded
  i,                  \* loop index: files handled so far
  fileBuffer, fileText,
  fullExtractedText, allTextChunks, processingErrors, successfulFiles,
  summary, flashcards, studyGuide,
  error,              \* the error caught by the outer catch
  result,             \* what the run returned, or the error it raised
  writes,             \* statuses this run persisted, in order
  llmCalls,           \* chat-model invocations of this run, in order
  downloads,          \* file indices whose download this run started
  extractions,        \* file indices whose extraction this run started
  dl,                 \* one call of _downloadFile: arguments, locals, position
  worker,             \* OCRService.worker: 0 is null, n the n-th instance created
  isInitializing,     \* OCRService.isInitializing
  initializationPromise, \* "null", or the caller whose initializeWorker call made it
  inits,              \* the _doInitialization calls that have not settled
  created,            \* recognition workers created so far
  terminated,         \* workers on which terminate() has been called
  caller,             \* each caller of the OCR service: locals, position
  workload,           \* what the callers ask for and what the engine can answer
  ex,                 \* one call of _extractTextFromFile: arguments, answers, result
  http                \* each request to processDocument: body, user, responses sent

storeVars == << session >>
argVars == << sessionId, userId >>
fileVars == << i, fileBuffer, fileText, fullExtractedText, allTextChunks,
               processingErrors, successfulFiles >>
genVars == << summary, flashcards, studyGuide >>
traceVars == << writes, llmCalls, downloads, extractions >>
pipelineVars == << session, budget, pc, sessionId, userId, sessionData, i, fileBuffer,
                   fileText, fullExtractedText, allTextChunks, processingErrors,
                   successfulFiles, summary, flashcards, studyGuide, error, result,
                   writes, llmCalls, downloads, extractions >>
workerVars == << worker, isInitializing, initializationPromise, inits, created,
                 terminated >>
serviceVars == << dl, worker, isInitializing, initializationPromise, inits, created,
                  terminated, caller, workload, ex, http >>
vars == << session, budget, pc, sessionId, userId, sessionData, i, fileBuffer,
           fileText, fullExtractedText, allTextChunks, processingErrors,
           successfulFiles, summary, flashcards, studyGuide, error, result,
           writes, llmCalls, downloads, extractions, dl, worker, isInitializing,
           initializationPromise, inits, created, terminated, caller, workload,
           ex, http >>


\* ------------------------------------------------------ _downloadFile
NumStrategies == 2

StrategyError(o, fileName) ==
  IF o.kind = "data" THEN << "Downloaded file is empty: ", fileName >>
  ELSE IF o.kind = "nodata" THEN << "No data received for ", fileName >>
  ELSE << "<transport error>" >>

\* the strategy loop from strategy k on; outs[k] is what strategy k answers
RECURSIVE DownloadFrom(_, _, _, _)
DownloadFrom(k, lastError, fileName, outs) ==
  IF k > NumStrategies
    THEN [ok |-> FALSE, data |-> << >>, tried |-> NumStrategies,
          error |-> << "All download strategies failed for ", fileName,
                       ". Last error: " >> \o lastError]
    ELSE IF outs[k].kind = "data" /\ Len(outs[k].data) # 0
      THEN [ok |-> TRUE, data |-> outs[k].data, tried |-> k, error |-> << >>]
      ELSE DownloadFrom(k + 1, StrategyError(outs[k], fileName), fileName, outs)

DownloadFile(fileName, outs) == DownloadFrom(1, << "undefined" >>, fileName, outs)

\* ------------------------------------------------ _extractTextFromFile
MimeMsword == << "application", "msword" >>
MimePpt == << "application", "vnd.ms-powerpoint" >>

IsImage(m) == m[1] = "image"
IsPdf(m) == m = MimePdf
\* a dispatcher without the word-processor branch
IsWordNever(m) == FALSE
IsWord(m) == m \in {MimeDocx, MimeMsword}
IsPresentation(m) == m \in {MimePptx, MimePpt}
\* a dispatcher without the text branch
IsTextNever(m) == FALSE
IsText(m) == m[1] = "text"

\* a decoding that never counts as usable text
UsableNever(text) == FALSE
\* line 280: the decoded bytes are usable if not empty after trim()
Usable(text) == Len(Trim(text)) # 0

NativeError == << "<native parser error>" >>
OcrError == << "<ocr error>" >>

Extracted(text, usedNative, usedOcr) ==
  [ok |-> TRUE, text |-> text, error |-> << >>, native |-> usedNative, ocr |-> usedOcr]
ExtractFailed(msg, usedNative, usedOcr) ==
  [ok |-> FALSE, text |-> << >>, error |-> msg, native |-> usedNative, ocr |-> usedOcr]

\* a branch without its emptiness test
ReturnedAnyway(text, msg, usedNative, usedOcr) == Extracted(text, usedNative, usedOcr)

\* every branch ends in the same test: empty after trim() is a failure
NonEmptyOr(text, msg, usedNative, usedOcr) ==
  IF Len(Trim(text)) = 0 THEN ExtractFailed(msg, usedNative, usedOcr)
  ELSE Extracted(text, usedNative, usedOcr)

ViaOcr(ocr, msg, usedNative) ==
  IF ~ocr.ok THEN ExtractFailed(OcrError, usedNative, TRUE)
  ELSE NonEmptyOr(ocr.text, msg, usedNative, TRUE)

\* native: what pdf-parse / mammoth answers; ocr: what performOCRWithRetry answers
ExtractTextFromFile(fileBuffer_, fileDetail, native, ocr) ==
  LET fileName == fileDetail.fileName
      mimeType == fileDetail.mimeType
  IN
  IF IsImage(mimeType)
    THEN ViaOcr(ocr, << "OCR extracted no text from ", fileName >>, FALSE)
  ELSE IF IsPdf(mimeType)
    THEN IF native.ok
           THEN NonEmptyOr(native.text,
                           << "No text or OCR text extracted from PDF: ", fileName >>,
                           TRUE, FALSE)
           ELSE ViaOcr(ocr, << "No text or OCR text extracted from PDF: ", fileName >>,
                       TRUE)
  ELSE IF IsWord(mimeType)
    THEN IF native.ok
           THEN NonEmptyOr(native.text,
                           << "No text extracted from Word document: ", fileName >>,
                           TRUE, FALSE)
           ELSE ExtractFailed(NativeError, TRUE, FALSE)
  ELSE IF IsPresentation(mimeType)
    THEN ViaOcr(ocr, << "No text or OCR text extracted from PowerPoint: ", fileName >>,
                FALSE)
  ELSE IF IsText(mimeType)
    THEN NonEmptyOr(fileBuffer_, << "Empty text file: ", fileName >>, FALSE, FALSE)
  ELSE IF Usable(fileBuffer_)
    THEN Extracted(fileBuffer_, FALSE, FALSE)
    ELSE ViaOcr(ocr, << "OCR fallback also failed for ", fileName, "." >>, FALSE)

\* ------------------------------------------------------------ chunking
\* RecursiveCharacterTextSplitter with chunkSize 1000: a token of this model
\* stands for a stretch of text that fills one chunk, and the 200 characters
\* that consecutive chunks share are left out
ChunkSize == 1

RECURSIVE SplitText(_)
\* the pieces of a text, in the order they have in the text
SplitText(text) ==
  IF Len(text) = 0 THEN << >>
  ELSE IF Len(text) <= ChunkSize THEN << text >>
  ELSE << SubSeq(text, 1, ChunkSize) >> \o SplitText(SubSeq(text, ChunkSize + 1, Len(text)))

\* a splitter that yields the pieces of a text last piece first
CreateDocumentsReversed(text, fileDetail) ==
  LET pieces == SplitText(Trim(text)) IN
  [k \in 1..Len(pieces) |->
     [pageContent |-> pieces[Len(pieces) + 1 - k], source |-> fileDetail.fileName,
      mimeType |-> fileDetail.mimeType]]

\* createDocuments([fileText], [{source, mimeType}]): one document per piece,
\* each with the metadata of the file
CreateDocuments(text, fileDetail) ==
  LET pieces == SplitText(Trim(text)) IN
  [k \in 1..Len(pieces) |->
     [pageContent |-> pieces[k], source |-> fileDetail.fileName,
      mimeType |-> fileDetail.mimeType]]

\* ------------------------------------------------- messages and status
FileErrorMessage(fileName, cause) == << "Failed to process ", fileName, ": " >> \o cause

NoTextFromFile(fileName) == << "No text content extracted from ", fileName, "." >>

\* the message of line 533 without the per-file errors
NoTextMessageBare(errors) ==
  << "No text content could be extracted from any of the uploaded files. Errors: " >>

NoTextMessage(errors) ==
  << "No text content could be extracted from any of the uploaded files. Errors: " >>
    \o Join(errors, << "; " >>)

FetchFailedMessage == << "Failed to fetch session: ", "<store error>" >>
NotFoundMessage == << "Session not found." >>
UnauthorizedMessage == << "Unauthorized: Session does not belong to this user." >>
StatusUpdateFailedMessage == << "Failed to update session status: ", "<store error>" >>
FinalUpdateFailedMessage == << "Failed to update session: ", "<store error>" >>

\* a status that ignores the per-file errors
FinalStatusAlwaysCompleted(errors) == "completed"

FinalStatus(errors) ==
  IF Len(errors) > 0 THEN "completed_with_errors" ELSE "completed"

NullIfEmpty(errors) == IF Len(errors) > 0 THEN Some(errors) ELSE None

SummaryText == << "<summary>" >>
SummaryPlaceholder == << "Error generating summary." >>
StudyGuideText == << "<study guide>" >>
StudyGuidePlaceholder == << "Error generating study guide." >>
FlashcardsParsed == << [question |-> << "<q>" >>, answer |-> << "<a>" >>] >>
FlashcardsUnparsed ==
  << [question |-> << "Failed to parse flashcards." >>, answer |-> << "<content>" >>] >>
FlashcardsPlaceholder ==
  << [question |-> << "Error generating flashcards." >>,
      answer |-> << "Please try again." >>] >>


\* ------------------------------------------- the services before any call
\* _downloadFile not called: url and fileName are its arguments, i and
\* lastError its locals, calls the strategies invoked so far with their answers,
\* waits the delays of line 153 served
NoDownload ==
  [pc |-> "idle", url |-> "wellformed", fileName |-> "f1", i |-> 0,
   lastError |-> None, calls |-> << >>, waits |-> 0,
   result |-> [kind |-> "none", data |-> << >>, error |-> << >>]]

\* _extractTextFromFile not called: fileBuffer and fileDetail are its arguments,
\* native and ocr what the parser and performOCRWithRetry answer if asked
NoExtraction ==
  [pc |-> "idle", fileBuffer |-> << >>,
   fileDetail |-> [fileName |-> "f1", mimeType |-> << "text", "plain" >>],
   native |-> [ok |-> FALSE, text |-> << >>], ocr |-> [ok |-> FALSE, text |-> << >>],
   result |-> [ok |-> FALSE, text |-> << >>, error |-> << >>, native |-> FALSE,
               ocr |-> FALSE]]

\* no request received: sessionId is req.body.sessionId ("" when missing), user
\* req.user (None when missing, its uid "" when missing), responses the status
\* codes sent on res, in order
NoRequest ==
  [pc |-> "none", sessionId |-> "", user |-> None, headersSent |-> FALSE,
   responses |-> << >>]

Callers == {"c1", "c2"}

\* a caller of the OCR service before its call: maxRetries, attempt, lastError
\* and bestResult are the locals of performOCRWithRetry, awaiting the
\* initialization it waits for, using the worker its recognition runs on, closing
\* the worker whose terminate() it awaits, pending the error performOCR throws
\* after that, attempts what each performOCR call of this caller gave
IdleCaller ==
  [pc |-> "idle", op |-> "none", maxRetries |-> 0, attempt |-> 0, lastError |-> None,
   bestResult |-> None, awaiting |-> "null", using |-> 0, closing |-> 0,
   pending |-> << >>, attempts |-> << >>, used |-> 0, waited |-> FALSE, after |-> {},
   result |-> [kind |-> "none", value |-> None, error |-> << >>]]

NoWorkload == [callers |-> {}, ops |-> {}, retries |-> {}, answers |-> {}]

ServicesIdle ==
  /\ dl = NoDownload
  /\ worker = 0
  /\ isInitializing = FALSE
  /\ initializationPromise = "null"
  /\ inits = {}
  /\ created = 0
  /\ terminated = {}
  /\ caller = [c \in Callers |-> IdleCaller]
  /\ ex = NoExtraction
  /\ http = [r \in Runs |-> NoRequest]

\* ----------------------------------------------------- initial states
NoResult == [kind |-> "none", error |-> << >>, errors |-> None,
             successfulFiles |-> << >>, totalTextLength |-> 0]

FileLists ==
  UNION {[1..n -> MimeTypes] : n \in 0..MaxFiles}

FilesOf(mimes) ==
  [k \in 1..Len(mimes) |-> [fileName |-> FileNames[k], mimeType |-> mimes[k]]]

\* a session as it is created outside this service: pending, no results yet
NewSession(mimes, prefs) ==
  [user_id |-> OwnerId, files |-> FilesOf(mimes), preferences |-> prefs,
   status |-> "pending", error_message |-> None,
   summary |-> None, flashcards |-> << >>, study_guide |-> None,
   total_text_length |-> 0, total_chunks |-> 0,
   successful_files |-> << >>, processing_errors |-> None]

InitRuns ==
  /\ pc = [r \in Runs |-> "idle"]
  /\ sessionId = [r \in Runs |-> ExistingId]
  /\ userId = [r \in Runs |-> OwnerId]
  /\ sessionData = [r \in Runs |-> None]
  /\ i = [r \in Runs |-> 0]
  /\ fileBuffer = [r \in Runs |-> << >>]
  /\ fileText = [r \in Runs |-> << >>]
  /\ fullExtractedText = [r \in Runs |-> << >>]
  /\ allTextChunks = [r \in Runs |-> << >>]
  /\ processingErrors = [r \in Runs |-> << >>]
  /\ successfulFiles = [r \in Runs |-> << >>]
  /\ summary = [r \in Runs |-> None]
  /\ flashcards = [r \in Runs |-> << >>]
  /\ studyGuide = [r \in Runs |-> None]
  /\ error = [r \in Runs |-> << >>]
  /\ result = [r \in Runs |-> NoResult]
  /\ writes = [r \in Runs |-> << >>]
  /\ llmCalls = [r \in Runs |-> << >>]
  /\ downloads = [r \in Runs |-> << >>]
  /\ extractions = [r \in Runs |-> << >>]
  /\ ServicesIdle

\* one caller, one invocation, any session of at most MaxFiles files
Init ==
  /\ \E mimes \in FileLists, prefs \in Preferences : session = NewSession(mimes, prefs)
  /\ budget = [r \in Runs |-> IF r = "r1" THEN 1 ELSE 0]
  /\ InitRuns
  /\ workload = NoWorkload

\* --------------------------------------------------------------- steps
Set(f, r, v) == [f EXCEPT ![r] = v]

Files(r) == sessionData[r][1].files
FileDetail(r) == Files(r)[i[r] + 1]

\* throw inside the outer try: control passes to the catch of line 588
Throw(r, msg) ==
  /\ error' = Set(error, r, msg)
  /\ pc' = Set(pc, r, "catch")

\* initiateProcessing(sid, uid) is entered: fresh locals, up to the first await
Begin(r, sid, uid) ==
  /\ sessionId' = Set(sessionId, r, sid)
  /\ userId' = Set(userId, r, uid)
  /\ pc' = Set(pc, r, "fetch")
  /\ sessionData' = Set(sessionData, r, None)
  /\ i' = Set(i, r, 0)
  /\ fileBuffer' = Set(fileBuffer, r, << >>)
  /\ fileText' = Set(fileText, r, << >>)
  /\ fullExtractedText' = Set(fullExtractedText, r, << >>)
  /\ allTextChunks' = Set(allTextChunks, r, << >>)
  /\ processingErrors' = Set(processingErrors, r, << >>)
  /\ successfulFiles' = Set(successfulFiles, r, << >>)
  /\ summary' = Set(summary, r, None)
  /\ flashcards' = Set(flashcards, r, << >>)
  /\ studyGuide' = Set(studyGuide, r, None)
  /\ error' = Set(error, r, << >>)
  /\ result' = Set(result, r, NoResult)
  /\ writes' = Set(writes, r, << >>)
  /\ llmCalls' = Set(llmCalls, r, << >>)
  /\ downloads' = Set(downloads, r, << >>)
  /\ extractions' = Set(extractions, r, << >>)
  /\ UNCHANGED session

\* the controller's call documentProcessingService.initiateProcessing(...)
Invoke(r) ==
  /\ pc[r] \in {"idle", "returned", "raised"}
  /\ UNCHANGED serviceVars
  /\ budget[r] > 0
  /\ \E sid \in SessionIds, uid \in Users : Begin(r, sid, uid)
  /\ budget' = Set(budget, r, budget[r] - 1)

\* what select("*").eq("id", sessionId).single() can answer
FetchOutcomes(sid) ==
  IF sid = ExistingId THEN {"row", "error"} ELSE {"norow", "error"}

Loaded ==
  [user_id |-> session.user_id, files |-> session.files,
   preferences |-> session.preferences]

\* no ownership test
AuthorizedAlways(rec, uid) == TRUE

Authorized(rec, uid) == rec.user_id = uid

Fetch(r) ==
  /\ pc[r] = "fetch"
  /\ UNCHANGED serviceVars
  /\ \E o \in FetchOutcomes(sessionId[r]) :
       IF o = "error"
         THEN Throw(r, FetchFailedMessage) /\ UNCHANGED sessionData
       ELSE IF o = "norow"
         THEN Throw(r, NotFoundMessage) /\ UNCHANGED sessionData
       ELSE IF ~Authorized(Loaded, userId[r])
         THEN Throw(r, UnauthorizedMessage)
              /\ sessionData' = Set(sessionData, r, Some(Loaded))
       ELSE /\ sessionData' = Set(sessionData, r, Some(Loaded))
            /\ pc' = Set(pc, r, "mark_processing")
            /\ UNCHANGED error
  /\ UNCHANGED << session, budget, argVars, fileVars, genVars, result, traceVars >>

\* update(...).eq("id", sid): rows that do not exist are not touched, no error
Applies(sid) == sid = ExistingId

Persisted(r, status) ==
  IF Applies(sessionId[r]) THEN Set(writes, r, Append(writes[r], status)) ELSE writes

MarkProcessing(r) ==
  /\ pc[r] = "mark_processing"
  /\ UNCHANGED serviceVars
  /\ \E o \in StoreOutcomes :
       IF o = "ok"
         THEN /\ session' = IF Applies(sessionId[r])
                              THEN [session EXCEPT !.status = "processing",
                                                   !.error_message = None]
                              ELSE session
              /\ writes' = Persisted(r, "processing")
              /\ pc' = Set(pc, r, "loop")
              /\ UNCHANGED error
         ELSE /\ Throw(r, StatusUpdateFailedMessage)
              /\ UNCHANGED << session, writes >>
  /\ UNCHANGED << budget, argVars, sessionData, fileVars, genVars, result,
                  llmCalls, downloads, extractions >>

\* the loop test without the empty-text test of line 531
LoopHeadNoTextCheck(r) ==
  /\ pc[r] = "loop"
  /\ UNCHANGED serviceVars
  /\ pc' = Set(pc, r, IF i[r] < Len(Files(r)) THEN "download" ELSE "gen_summary")
  /\ UNCHANGED << session, budget, argVars, sessionData, fileVars, genVars, error,
                  result, traceVars >>

\* loop test of line 469 and, after the last file, the test of line 531
LoopHead(r) ==
  /\ pc[r] = "loop"
  /\ UNCHANGED serviceVars
  /\ IF i[r] < Len(Files(r))
       THEN pc' = Set(pc, r, "download") /\ UNCHANGED error
     ELSE IF Len(Trim(fullExtractedText[r])) = 0
       THEN Throw(r, NoTextMessage(processingErrors[r]))
     ELSE pc' = Set(pc, r, "gen_summary") /\ UNCHANGED error
  /\ UNCHANGED << session, budget, argVars, sessionData, fileVars, genVars, result,
                  traceVars >>

\* a file failure that ends the loop instead of going on with the next file
FileFailedAborts(r, cause) ==
  /\ processingErrors' =
       Set(processingErrors, r,
           Append(processingErrors[r], FileErrorMessage(FileDetail(r).fileName, cause)))
  /\ fileBuffer' = Set(fileBuffer, r, << >>)
  /\ fileText' = Set(fileText, r, << >>)
  /\ i' = Set(i, r, Len(Files(r)))
  /\ pc' = Set(pc, r, "loop")

\* a file failure that is logged but not pushed to processingErrors
FileFailedUnrecorded(r, cause) ==
  /\ UNCHANGED processingErrors
  /\ fileBuffer' = Set(fileBuffer, r, << >>)
  /\ fileText' = Set(fileText, r, << >>)
  /\ i' = Set(i, r, i[r] + 1)
  /\ pc' = Set(pc, r, "loop")

\* catch (fileError) of line 510: record the failure, go on with the next file;
\* fileBuffer and fileText are scoped to the iteration that ends here
FileFailed(r, cause) ==
  /\ processingErrors' =
       Set(processingErrors, r,
           Append(processingErrors[r], FileErrorMessage(FileDetail(r).fileName, cause)))
  /\ fileBuffer' = Set(fileBuffer, r, << >>)
  /\ fileText' = Set(fileText, r, << >>)
  /\ i' = Set(i, r, i[r] + 1)
  /\ pc' = Set(pc, r, "loop")

\* a download that also starts the transfer of the file after this one
DownloadAhead(r) ==
  /\ pc[r] = "download"
  /\ UNCHANGED serviceVars
  /\ downloads' =
       Set(downloads, r,
           downloads[r] \o (IF i[r] + 2 <= Len(Files(r)) THEN << i[r] + 1, i[r] + 2 >>
                                                        ELSE << i[r] + 1 >>))
  /\ \E outs \in [1..NumStrategies -> StrategyOutcomes] :
       LET res == DownloadFile(FileDetail(r).fileName, outs) IN
       IF res.ok
         THEN /\ fileBuffer' = Set(fileBuffer, r, res.data)
              /\ pc' = Set(pc, r, "extract")
              /\ UNCHANGED << i, processingErrors, fileText >>
         ELSE FileFailed(r, res.error)
  /\ UNCHANGED << session, budget, argVars, sessionData, fullExtractedText,
                  allTextChunks, successfulFiles, genVars, error, result, writes,
                  llmCalls, extractions >>

\* one iteration of the file loop starts with the await of line 482
Download(r) ==
  /\ pc[r] = "download"
  /\ UNCHANGED serviceVars
  /\ downloads' = Set(downloads, r, Append(downloads[r], i[r] + 1))
  /\ \E outs \in [1..NumStrategies -> StrategyOutcomes] :
       LET res == DownloadFile(FileDetail(r).fileName, outs) IN
       IF res.ok
         THEN /\ fileBuffer' = Set(fileBuffer, r, res.data)
              /\ pc' = Set(pc, r, "extract")
              /\ UNCHANGED << i, processingErrors, fileText >>
         ELSE FileFailed(r, res.error)
  /\ UNCHANGED << session, budget, argVars, sessionData, fullExtractedText,
                  allTextChunks, successfulFiles, genVars, error, result, writes,
                  llmCalls, extractions >>

Extract(r) ==
  /\ pc[r] = "extract"
  /\ UNCHANGED serviceVars
  /\ extractions' = Set(extractions, r, Append(extractions[r], i[r] + 1))
  /\ \E native \in NativeOutcomes, ocr \in OcrOutcomes :
       LET res == ExtractTextFromFile(fileBuffer[r], FileDetail(r), native, ocr) IN
       IF ~res.ok
         THEN /\ FileFailed(r, res.error)
              /\ UNCHANGED << fullExtractedText, successfulFiles >>
       ELSE IF Len(Trim(res.text)) > 0
         THEN /\ fileText' = Set(fileText, r, res.text)
              /\ fullExtractedText' =
                   Set(fullExtractedText, r,
                       fullExtractedText[r] \o res.text \o << "\n", "\n" >>)
              /\ successfulFiles' =
                   Set(successfulFiles, r,
                       Append(successfulFiles[r], FileDetail(r).fileName))
              /\ pc' = Set(pc, r, "split")
              /\ UNCHANGED << i, processingErrors, fileBuffer >>
         ELSE /\ FileFailed(r, NoTextFromFile(FileDetail(r).fileName))
              /\ UNCHANGED << fullExtractedText, successfulFiles >>
  /\ UNCHANGED << session, budget, argVars, sessionData, allTextChunks,
                  genVars, error, result, writes, llmCalls, downloads >>

Split(r) ==
  /\ pc[r] = "split"
  /\ UNCHANGED serviceVars
  /\ allTextChunks' =
       Set(allTextChunks, r, allTextChunks[r] \o CreateDocuments(fileText[r], FileDetail(r)))
  /\ fileBuffer' = Set(fileBuffer, r, << >>)
  /\ fileText' = Set(fileText, r, << >>)
  /\ i' = Set(i, r, i[r] + 1)
  /\ pc' = Set(pc, r, "loop")
  /\ UNCHANGED << session, budget, argVars, sessionData,
                  fullExtractedText, processingErrors, successfulFiles, genVars,
                  error, result, traceVars >>


\* ----------------------------------------------- _generateContentWithLLM
Prefs(r) == sessionData[r][1].preferences

\* one chatModel.invoke: which prompt, and how it ended
Call(kind, o) == [kind |-> kind, outcome |-> o]

SummaryField(o) == IF o = "throw" THEN SummaryPlaceholder ELSE SummaryText

FlashcardsField(o) ==
  IF o = "throw" THEN FlashcardsPlaceholder
  ELSE IF o = "unparsable" THEN FlashcardsUnparsed
  ELSE FlashcardsParsed

StudyGuideField(o) == IF o = "throw" THEN StudyGuidePlaceholder ELSE StudyGuideText

\* a summary failure that escapes to the outer catch
GenSummaryAborts(r) ==
  /\ pc[r] = "gen_summary"
  /\ UNCHANGED serviceVars
  /\ IF Prefs(r).generateSummary
       THEN \E o \in {"ok", "throw"} :
              /\ llmCalls' = Set(llmCalls, r, Append(llmCalls[r], Call("summary", o)))
              /\ IF o = "throw"
                   THEN Throw(r, << "<llm error>" >>) /\ UNCHANGED summary
                   ELSE /\ summary' = Set(summary, r, Some(SummaryField(o)))
                        /\ pc' = Set(pc, r, "gen_flashcards")
                        /\ UNCHANGED error
       ELSE /\ pc' = Set(pc, r, "gen_flashcards")
            /\ UNCHANGED << llmCalls, summary, error >>
  /\ UNCHANGED << session, budget, argVars, sessionData, fileVars, flashcards,
                  studyGuide, result, writes, downloads, extractions >>

\* a summary that is generated whatever the preferences say
GenSummaryAlways(r) ==
  /\ pc[r] = "gen_summary"
  /\ UNCHANGED serviceVars
  /\ \E o \in {"ok", "throw"} :
       /\ llmCalls' = Set(llmCalls, r, Append(llmCalls[r], Call("summary", o)))
       /\ summary' = Set(summary, r, Some(SummaryField(o)))
  /\ pc' = Set(pc, r, "gen_flashcards")
  /\ UNCHANGED << session, budget, argVars, sessionData, fileVars, flashcards,
                  studyGuide, error, result, writes, downloads, extractions >>

GenSummary(r) ==
  /\ pc[r] = "gen_summary"
  /\ UNCHANGED serviceVars
  /\ IF Prefs(r).generateSummary
       THEN \E o \in {"ok", "throw"} :
              /\ llmCalls' = Set(llmCalls, r, Append(llmCalls[r], Call("summary", o)))
              /\ summary' = Set(summary, r, Some(SummaryField(o)))
       ELSE UNCHANGED << llmCalls, summary >>
  /\ pc' = Set(pc, r, "gen_flashcards")
  /\ UNCHANGED << session, budget, argVars, sessionData, fileVars, flashcards,
                  studyGuide, error, result, writes, downloads, extractions >>

GenFlashcards(r) ==
  /\ pc[r] = "gen_flashcards"
  /\ UNCHANGED serviceVars
  /\ IF Prefs(r).generateFlashcards
       THEN \E o \in LlmOutcomes :
              /\ llmCalls' = Set(llmCalls, r, Append(llmCalls[r], Call("flashcards", o)))
              /\ flashcards' = Set(flashcards, r, FlashcardsField(o))
       ELSE UNCHANGED << llmCalls, flashcards >>
  /\ pc' = Set(pc, r, "gen_study_guide")
  /\ UNCHANGED << session, budget, argVars, sessionData, fileVars, summary,
                  studyGuide, error, result, writes, downloads, extractions >>

GenStudyGuide(r) ==
  /\ pc[r] = "gen_study_guide"
  /\ UNCHANGED serviceVars
  /\ IF Prefs(r).generateStudyGuide
       THEN \E o \in {"ok", "throw"} :
              /\ llmCalls' = Set(llmCalls, r, Append(llmCalls[r], Call("study_guide", o)))
              /\ studyGuide' = Set(studyGuide, r, Some(StudyGuideField(o)))
       ELSE UNCHANGED << llmCalls, studyGuide >>
  /\ pc' = Set(pc, r, "final_update")
  /\ UNCHANGED << session, budget, argVars, sessionData, fileVars, summary,
                  flashcards, error, result, writes, downloads, extractions >>

\* ------------------------------------------------- the terminal writes
\* the status written without the result fields
WithResultsStatusOnly(rec, r) ==
  [rec EXCEPT !.status = FinalStatus(processingErrors[r])]

\* updateData of lines 549-560, applied to the stored record in one update
WithResults(rec, r) ==
  [rec EXCEPT !.status = FinalStatus(processingErrors[r]),
              !.summary = summary[r],
              !.flashcards = flashcards[r],
              !.study_guide = studyGuide[r],
              !.total_text_length = Len(fullExtractedText[r]),
              !.total_chunks = Len(allTextChunks[r]),
              !.successful_files = successfulFiles[r],
              !.processing_errors = NullIfEmpty(processingErrors[r])]

\* the error list returned as it is, empty or not
SuccessResultAllErrors(r) ==
  [kind |-> "success", error |-> << >>,
   errors |-> Some(processingErrors[r]),
   successfulFiles |-> successfulFiles[r],
   totalTextLength |-> Len(fullExtractedText[r])]

SuccessResult(r) ==
  [kind |-> "success", error |-> << >>,
   errors |-> NullIfEmpty(processingErrors[r]),
   successfulFiles |-> successfulFiles[r],
   totalTextLength |-> Len(fullExtractedText[r])]

\* an accepted final update that is taken for a rejected one
FinalUpdateThrowsAfterWrite(r) ==
  /\ pc[r] = "final_update"
  /\ UNCHANGED serviceVars
  /\ session' = IF Applies(sessionId[r]) THEN WithResults(session, r) ELSE session
  /\ writes' = Persisted(r, FinalStatus(processingErrors[r]))
  /\ Throw(r, FinalUpdateFailedMessage)
  /\ UNCHANGED << budget, argVars, sessionData, fileVars, genVars, result, llmCalls,
                  downloads, extractions >>

FinalUpdate(r) ==
  /\ pc[r] = "final_update"
  /\ UNCHANGED serviceVars
  /\ \E o \in StoreOutcomes :
       IF o = "ok"
         THEN /\ session' = IF Applies(sessionId[r]) THEN WithResults(session, r)
                            ELSE session
              /\ writes' = Persisted(r, FinalStatus(processingErrors[r]))
              /\ result' = Set(result, r, SuccessResult(r))
              /\ pc' = Set(pc, r, "returned")
              /\ UNCHANGED error
         ELSE /\ Throw(r, FinalUpdateFailedMessage)
              /\ UNCHANGED << session, writes, result >>
  /\ UNCHANGED << budget, argVars, sessionData, fileVars, genVars, llmCalls,
                  downloads, extractions >>

\* the failure persisted with a fixed message
WithFailureGeneric(rec, msg) ==
  [rec EXCEPT !.status = "failed",
              !.error_message = Some(<< "Unknown processing error." >>)]

\* the update of lines 594-601
WithFailure(rec, msg) == [rec EXCEPT !.status = "failed", !.error_message = Some(msg)]

RaisedResult(msg) == [NoResult EXCEPT !.kind = "raised", !.error = msg]

\* an outer catch whose failure update, once refused, is awaited for ever
CatchNeverSettles(r) ==
  /\ pc[r] = "catch"
  /\ UNCHANGED serviceVars
  /\ \E o \in {"ok", "error", "throw"} :
       IF o = "ok"
         THEN /\ session' = IF Applies(sessionId[r]) THEN WithFailure(session, error[r])
                            ELSE session
              /\ writes' = Persisted(r, "failed")
              /\ result' = Set(result, r, RaisedResult(error[r]))
              /\ pc' = Set(pc, r, "raised")
         ELSE /\ pc' = Set(pc, r, "catch_update")
              /\ UNCHANGED << session, writes, result >>
  /\ UNCHANGED << budget, argVars, sessionData, fileVars, genVars, error, llmCalls,
                  downloads, extractions >>

\* outer catch: one attempt to persist the failure, then `throw error`;
\* an update that answers an error, or throws, is logged and ignored
Catch(r) ==
  /\ pc[r] = "catch"
  /\ UNCHANGED serviceVars
  /\ \E o \in {"ok", "error", "throw"} :
       IF o = "ok"
         THEN /\ session' = IF Applies(sessionId[r]) THEN WithFailure(session, error[r])
                            ELSE session
              /\ writes' = Persisted(r, "failed")
         ELSE UNCHANGED << session, writes >>
  /\ result' = Set(result, r, RaisedResult(error[r]))
  /\ pc' = Set(pc, r, "raised")
  /\ UNCHANGED << budget, argVars, sessionData, fileVars, genVars, error, llmCalls,
                  downloads, extractions >>

Next ==
  \E r \in Runs :
    \/ Invoke(r)
    \/ Fetch(r)
    \/ MarkProcessing(r)
    \/ LoopHead(r)
    \/ Download(r)
    \/ Extract(r)
    \/ Split(r)
    \/ GenSummary(r)
    \/ GenFlashcards(r)
    \/ GenStudyGuide(r)
    \/ FinalUpdate(r)
    \/ Catch(r)

Spec == Init /\ [][Next]_vars

\* two callers, one invocation each, on a session of one text file
InitRuns2 ==
  /\ \E prefs \in Preferences : session = NewSession(<< MimeText >>, prefs)
  /\ budget = [r \in Runs |-> 1]
  /\ InitRuns
  /\ workload = NoWorkload

SpecRuns == InitRuns2 /\ [][Next]_vars


\* no run of the pipeline: the services are exercised on their own
PipelineIdle ==
  /\ session = NewSession(<< >>, CHOOSE p \in Preferences : TRUE)
  /\ budget = [r \in Runs |-> 0]
  /\ InitRuns

\* ================================================ _downloadFile, step by step
UrlKinds == {"wellformed", "malformed"}

\* what a transport can answer for the URL it is given: nothing is delivered
\* from a URL that is not well-formed
TransportOutcomes(url) ==
  IF url = "wellformed" THEN StrategyOutcomes
  ELSE {o \in StrategyOutcomes : o.kind = "throw"}

\* lines 111-121: the call, up to the first pass of the loop
CallDownloadFile ==
  /\ dl.pc = "idle"
  /\ \E url \in UrlKinds, n \in 1..Len(FileNames) :
       dl' = [NoDownload EXCEPT !.pc = "strategy", !.url = url, !.fileName = FileNames[n]]
  /\ UNCHANGED << pipelineVars, ex, http, workerVars, caller, workload >>

\* a payload is returned whatever its size
DeliversAnyData(o) == o.kind = "data"

\* lines 130-135: a payload of at least one byte
Delivers(o) == o.kind = "data" /\ Len(o.data) # 0

\* the strategies after the first are never tried
NoMoreStrategies(k) == FALSE

\* line 151
MoreStrategies(k) == k < NumStrategies - 1

AllFailed(fileName, lastError) ==
  << "All download strategies failed for ", fileName, ". Last error: " >> \o lastError

\* lines 122-156: strategies[i]() is awaited and its answer handled
TryStrategy ==
  /\ dl.pc = "strategy"
  /\ \E o \in TransportOutcomes(dl.url) :
       LET called == [dl EXCEPT !.calls = Append(@, [strategy |-> dl.i, outcome |-> o])]
           failed == [called EXCEPT !.lastError = Some(StrategyError(o, dl.fileName))]
       IN dl' = IF Delivers(o)
                  THEN [called EXCEPT !.pc = "returned",
                                      !.result = [kind |-> "returned", data |-> o.data,
                                                  error |-> << >>]]
                ELSE IF MoreStrategies(dl.i)
                  THEN [failed EXCEPT !.pc = "wait"]
                ELSE [failed EXCEPT
                        !.pc = "raised", !.i = @ + 1,
                        !.result = [kind |-> "raised", data |-> << >>,
                                    error |-> AllFailed(dl.fileName,
                                                        failed.lastError[1])]]
  /\ UNCHANGED << pipelineVars, ex, http, workerVars, caller, workload >>

\* line 153: the 2000 ms are over, the loop goes on with the next strategy
WaitDone ==
  /\ dl.pc = "wait"
  /\ dl' = [dl EXCEPT !.pc = "strategy", !.i = @ + 1, !.waits = @ + 1]
  /\ UNCHANGED << pipelineVars, ex, http, workerVars, caller, workload >>

InitDownload ==
  /\ PipelineIdle
  /\ workload = NoWorkload

NextDownload ==
  \/ CallDownloadFile
  \/ TryStrategy
  \/ WaitDone

SpecDownload == InitDownload /\ [][NextDownload]_vars


\* ========================================================= OCRService
GoodConfidence == 70

Includes(msg, word) == \E n \in 1..Len(msg) : msg[n] = word

CreationTimeout == << "Worker", " initialization ", "timeout", " after 30 seconds" >>
RecognitionTimeout == << "OCR recognition ", "timeout", " after 120 seconds" >>
\* errors of the engine: one whose message has the word Worker, one without
EngineWorkerError == << "Worker", " <engine failure>" >>
EngineError == << "<engine failure>" >>
InitializationFailed(msg) == << "OCR initialization failed: " >> \o msg
NotAvailable == << "Tesseract.js worker is not available" >>
OcrTimeout == << "OCR ", "timeout", ": Processing took longer than expected" >>
RecognitionFailed(msg) == << "OCR recognition failed: " >> \o msg
AllAttemptsFailed == << "OCR failed after all retry attempts" >>

Returned(me, value) ==
  [me EXCEPT !.pc = "done",
             !.result = [kind |-> "returned", value |-> Some(value), error |-> << >>]]
Raised(me, err) ==
  [me EXCEPT !.pc = "done",
             !.result = [kind |-> "raised", value |-> None, error |-> err]]

\* after the loop, with the error of line 295 whatever the attempts raised
FinishWithDefaultError(me) ==
  IF me.bestResult # None THEN Returned(me, me.bestResult[1])
  ELSE Raised(me, AllAttemptsFailed)

\* lines 283-300: after the loop
Finish(me) ==
  IF me.bestResult # None THEN Returned(me, me.bestResult[1])
  ELSE Raised(me, IF me.lastError # None THEN me.lastError[1] ELSE AllAttemptsFailed)

\* closeWorker() called while this.worker is w: with a worker it awaits
\* terminate(), without one it returns at once and the caller goes on to next
CloseWorkerThen(me, w, awaitingPc, next) ==
  IF w # 0 THEN [me EXCEPT !.pc = awaitingPc, !.closing = w] ELSE next

\* a catch that tears down and waits after the last attempt as well
AttemptRaisedAlwaysCloses(me, err, w) ==
  LET me1 == [me EXCEPT !.lastError = Some(err), !.using = 0, !.pending = << >>,
                        !.used = 0,
                        !.attempts = Append(@, [kind |-> "raised", value |-> None,
                                                error |-> err, worker |-> me.used,
                                                waited |-> me.waited])]
  IN CloseWorkerThen(me1, w, "retry_close", [me1 EXCEPT !.pc = "delay"])

\* catch of lines 268-280: performOCR threw err in attempt me.attempt; the
\* history of the call notes the worker the attempt obtained (0 for none) and
\* whether the delay of lines 259/278 preceded the attempt
AttemptRaised(me, err, w) ==
  LET me1 == [me EXCEPT !.lastError = Some(err), !.using = 0, !.pending = << >>,
                        !.used = 0,
                        !.attempts = Append(@, [kind |-> "raised", value |-> None,
                                                error |-> err, worker |-> me.used,
                                                waited |-> me.waited])]
  IN IF me.attempt < me.maxRetries
       THEN CloseWorkerThen(me1, w, "retry_close", [me1 EXCEPT !.pc = "delay"])
       ELSE Finish(me1)

\* the best result so far as if the first result were kept whatever came later
BetterFirst(best, res) == IF best = None THEN Some(res) ELSE best

\* lines 246-251
Better(best, res) ==
  IF best = None \/ res.confidence > best[1].confidence THEN Some(res) ELSE best

\* no result is good enough to be returned at once
AcceptedNever(res) == FALSE

\* line 238
Accepted(res) == res.confidence >= GoodConfidence /\ Len(res.text) > 0

\* lines 235-267: performOCR returned res in attempt me.attempt
AttemptReturned(me, res, w) ==
  LET me1 == [me EXCEPT !.using = 0, !.used = 0,
                        !.attempts = Append(@, [kind |-> "returned", value |-> Some(res),
                                                error |-> << >>, worker |-> me.used,
                                                waited |-> me.waited])]
      best == Better(me.bestResult, res)
      me2 == [me1 EXCEPT !.bestResult = best]
  IN IF Accepted(res) THEN Returned(me1, res)
     ELSE IF me.attempt < me.maxRetries /\ res.confidence < GoodConfidence
       THEN CloseWorkerThen(me2, w, "retry_close", [me2 EXCEPT !.pc = "delay"])
     ELSE IF me.attempt = me.maxRetries THEN Returned(me2, best[1])
     ELSE [me2 EXCEPT !.attempt = @ + 1, !.pc = "attempt", !.waited = FALSE]

\* a timeout that ends the whole call instead of the attempt
PerformCatchTimeoutEnds(me, msg, w) ==
  IF Includes(msg, "timeout")
    THEN Raised([me EXCEPT !.attempts = Append(@, [kind |-> "raised", value |-> None,
                                                   error |-> OcrTimeout,
                                                   worker |-> me.used,
                                                   waited |-> me.waited])],
                OcrTimeout)
  ELSE AttemptRaised(me, RecognitionFailed(msg), w)

\* catch of lines 196-215: what performOCR does with an error of message msg
PerformCatch(me, msg, w) ==
  IF Includes(msg, "timeout") THEN AttemptRaised(me, OcrTimeout, w)
  ELSE IF Includes(msg, "Worker")
    THEN CloseWorkerThen([me EXCEPT !.using = 0, !.pending = RecognitionFailed(msg)],
                         w, "perform_close",
                         AttemptRaised(me, RecognitionFailed(msg), w))
  ELSE AttemptRaised(me, RecognitionFailed(msg), w)

\* a caller goes on after initializeWorker(): rejection is the message the
\* initialization rejected with, << >> if it resolved; w is this.worker then
Resume(me, rejection, w) ==
  LET me0 == [me EXCEPT !.awaiting = "null"] IN
  IF me.op = "health"
    THEN [me0 EXCEPT !.pc = "done",
                     !.result = [kind |-> IF rejection = << >> /\ w # 0
                                            THEN "healthy" ELSE "unhealthy",
                                 value |-> None, error |-> << >>]]
  ELSE IF rejection # << >> THEN PerformCatch(me0, rejection, w)
  ELSE IF w = 0 THEN PerformCatch(me0, NotAvailable, w)
  ELSE [me0 EXCEPT !.pc = "recognize", !.using = w, !.used = w]

Put(c, me) == [caller EXCEPT ![c] = me]

\* terminate() has been called on every worker some caller is closing
TrackTerminated ==
  terminated' = terminated \cup ({caller'[c].closing : c \in Callers} \ {0})

\* an initializeWorker that raises the flag without recording the promise
EnterInitializeUnrecorded(c, me) ==
  /\ IF worker # 0 /\ ~isInitializing
       THEN /\ caller' = Put(c, Resume(me, << >>, worker))
            /\ UNCHANGED << isInitializing, inits >>
       ELSE /\ isInitializing' = TRUE
            /\ inits' = inits \cup {[by |-> c,
                                     stage |-> IF worker # 0 THEN "closing" ELSE "creating"]}
            /\ caller' = Put(c, [me EXCEPT !.pc = "await_init", !.awaiting = c])
  /\ UNCHANGED initializationPromise
  /\ TrackTerminated
  /\ UNCHANGED << worker, created >>

\* initializeWorker() called by c, up to its await
EnterInitialize(c, me) ==
  /\ IF initializationPromise # "null"
       THEN /\ caller' = Put(c, [me EXCEPT !.pc = "await_init",
                                           !.awaiting = initializationPromise])
            /\ UNCHANGED << isInitializing, initializationPromise, inits >>
     ELSE IF worker # 0 /\ ~isInitializing
       THEN /\ caller' = Put(c, Resume(me, << >>, worker))
            /\ UNCHANGED << isInitializing, initializationPromise, inits >>
     ELSE /\ isInitializing' = TRUE
          /\ initializationPromise' = c
          /\ inits' = inits \cup {[by |-> c,
                                   stage |-> IF worker # 0 THEN "closing" ELSE "creating"]}
          /\ caller' = Put(c, [me EXCEPT !.pc = "await_init", !.awaiting = c])
  /\ TrackTerminated
  /\ UNCHANGED << worker, created >>

\* performOCRWithRetry(imageData, mimeType, n); after: the callers whose call
\* had ended when this one was made
CallRetry(c) ==
  /\ caller[c].pc = "idle"
  /\ c \in workload.callers
  /\ "retry" \in workload.ops
  /\ \E n \in workload.retries :
       LET me == [caller[c] EXCEPT !.op = "retry", !.maxRetries = n, !.attempt = 1,
                                   !.after = {d \in Callers : caller[d].pc = "done"}] IN
       caller' = Put(c, IF n < 1 THEN Finish(me) ELSE [me EXCEPT !.pc = "attempt"])
  /\ UNCHANGED << pipelineVars, ex, http, dl, workerVars, workload >>

\* performOCR(imageData, mimeType) of attempt caller[c].attempt, line 235
StartAttempt(c) ==
  /\ caller[c].pc = "attempt"
  /\ EnterInitialize(c, caller[c])
  /\ UNCHANGED << pipelineVars, ex, http, dl, workload >>

HealthCheck(c) ==
  /\ caller[c].pc = "idle"
  /\ c \in workload.callers
  /\ "health" \in workload.ops
  /\ LET me == [caller[c] EXCEPT !.op = "health"] IN
     IF worker = 0 /\ ~isInitializing
       THEN EnterInitialize(c, me)
       ELSE /\ caller' = Put(c, Resume(me, << >>, worker))
            /\ UNCHANGED workerVars
  /\ UNCHANGED << pipelineVars, ex, http, dl, workload >>

\* an initializeWorker without the finally of lines 34-37
SettledGuardKept(init, rejection, w) ==
  /\ inits' = inits \ {init}
  /\ UNCHANGED << isInitializing, initializationPromise >>
  /\ caller' = [c \in Callers |->
                  IF caller[c].pc = "await_init" /\ caller[c].awaiting = init.by
                    THEN Resume(caller[c], rejection, w)
                    ELSE caller[c]]

\* the initialization settles: the finally of lines 34-37 runs and every caller
\* that awaits it goes on
Settled(init, rejection, w) ==
  /\ inits' = inits \ {init}
  /\ isInitializing' = FALSE
  /\ initializationPromise' = "null"
  /\ caller' = [c \in Callers |->
                  IF caller[c].pc = "await_init" /\ caller[c].awaiting = init.by
                    THEN Resume(caller[c], rejection, w)
                    ELSE caller[c]]

CreationOutcomes == {<< >>, CreationTimeout, EngineError}
ConfigurationOutcomes == {<< >>, EngineWorkerError}

\* one await of the _doInitialization call that c made is answered
InitStep(c) ==
  /\ \E init \in inits :
       /\ init.by = c
       /\ IF init.stage = "closing"
            THEN /\ worker' = 0
                 /\ isInitializing' = FALSE
                 /\ initializationPromise' = "null"
                 /\ inits' = (inits \ {init}) \cup {[init EXCEPT !.stage = "creating"]}
                 /\ UNCHANGED << created, caller >>
          ELSE IF init.stage = "creating"
            THEN \E o \in CreationOutcomes :
                   IF o = << >>
                     THEN /\ created' = created + 1
                          /\ worker' = created + 1
                          /\ inits' = (inits \ {init})
                                        \cup {[init EXCEPT !.stage = "configuring"]}
                          /\ UNCHANGED << isInitializing, initializationPromise, caller >>
                     ELSE /\ worker' = 0
                          /\ Settled(init, InitializationFailed(o), 0)
                          /\ UNCHANGED created
          ELSE \E o \in ConfigurationOutcomes :
                 IF o = << >>
                   THEN Settled(init, << >>, worker) /\ UNCHANGED << worker, created >>
                   ELSE /\ worker' = 0
                        /\ Settled(init, InitializationFailed(o), 0)
                        /\ UNCHANGED created
  /\ TrackTerminated
  /\ UNCHANGED << pipelineVars, ex, http, dl, workload >>

\* the race of line 157 is decided
RecognizeDone(c) ==
  /\ caller[c].pc = "recognize"
  /\ \E a \in workload.answers :
       caller' = Put(c, IF a.error = << >>
                          THEN AttemptReturned(caller[c],
                                               [text |-> Trim(a.text),
                                                confidence |-> a.confidence], worker)
                          ELSE PerformCatch(caller[c], a.error, worker))
  /\ TrackTerminated
  /\ UNCHANGED << pipelineVars, ex, http, dl, worker, isInitializing, initializationPromise,
                  inits, created, workload >>

\* terminate() of line 310 settles, either way; the finally of lines 314-318
TerminateDone(c) ==
  /\ caller[c].pc \in {"perform_close", "retry_close"}
  /\ worker' = 0
  /\ isInitializing' = FALSE
  /\ initializationPromise' = "null"
  /\ LET me == [caller[c] EXCEPT !.closing = 0] IN
     caller' = Put(c, IF me.pc = "perform_close"
                        THEN AttemptRaised(me, me.pending, 0)
                        ELSE [me EXCEPT !.pc = "delay"])
  /\ TrackTerminated
  /\ UNCHANGED << pipelineVars, ex, http, dl, inits, created, workload >>

\* the 2000 ms of lines 259 and 278 are over
DelayDone(c) ==
  /\ caller[c].pc = "delay"
  /\ caller' = Put(c, [caller[c] EXCEPT !.attempt = @ + 1, !.pc = "attempt",
                                        !.waited = TRUE])
  /\ UNCHANGED << pipelineVars, ex, http, dl, workerVars, workload >>

\* getWorkerStatus().status, lines 331-335
WorkerStatus ==
  IF isInitializing THEN "initializing"
  ELSE IF worker # 0 THEN "ready" ELSE "not_initialized"

\* ------------------------------------------- specifications of the service
MaxRetries == 3

Confidences == {40, 55, 60, 72, 90}
RawTexts == {<< " " >>, << "d", "\n" >>}
ResultAnswers == [text : RawTexts, confidence : Confidences, error : {<< >>}]
ErrorAnswers ==
  [text : {<< >>}, confidence : {0},
   error : {RecognitionTimeout, EngineWorkerError, EngineError}]

\* one caller of performOCRWithRetry, any maxRetries up to MaxRetries, any results
InitRetry ==
  /\ PipelineIdle
  /\ workload = [callers |-> {"c1"}, ops |-> {"retry"}, retries |-> 0..MaxRetries,
                 answers |-> ResultAnswers \cup ErrorAnswers]

NextRetry ==
  \E c \in Callers :
    \/ CallRetry(c)
    \/ StartAttempt(c)
    \/ InitStep(c)
    \/ RecognizeDone(c)
    \/ TerminateDone(c)
    \/ DelayDone(c)

SpecRetry == InitRetry /\ [][NextRetry]_vars

\* every await of the call is answered: the engine, the timers and terminate()
SpecRetryLive == SpecRetry /\ WF_vars(NextRetry)

\* two callers at once, as two runs of the pipeline or a health check make them
InitOcr ==
  /\ PipelineIdle
  /\ workload = [callers |-> Callers, ops |-> {"retry", "health"}, retries |-> {2},
                 answers |-> {[text |-> << "d", "\n" >>, confidence |-> 40, error |-> << >>],
                              [text |-> << "d", "\n" >>, confidence |-> 72, error |-> << >>],
                              [text |-> << >>, confidence |-> 0,
                               error |-> EngineWorkerError],
                              [text |-> << >>, confidence |-> 0,
                               error |-> RecognitionTimeout]}]

NextOcr ==
  \E c \in Callers :
    \/ CallRetry(c)
    \/ HealthCheck(c)
    \/ StartAttempt(c)
    \/ InitStep(c)
    \/ RecognizeDone(c)
    \/ TerminateDone(c)
    \/ DelayDone(c)

SpecOcr == InitOcr /\ [][NextOcr]_vars


\* ============================================ _extractTextFromFile, one call
\* the media types that select each branch of the dispatcher
DispatchTypes ==
  {MimePng, MimePdf, MimeDocx, MimeMsword, MimePptx, MimePpt, MimeText, MimeOther}

\* the parsers may also answer text that is only whitespace
DispatchNative ==
  [ok : {FALSE}, text : {<< >>}] \cup [ok : {TRUE}, text : NativeTexts \cup {<< " " >>}]

DispatchOcr ==
  [ok : {FALSE}, text : {<< >>}] \cup [ok : {TRUE}, text : OcrTexts \cup {<< " " >>}]

\* _extractTextFromFile(fileBuffer, fileDetail) is called
CallExtractTextFromFile ==
  /\ ex.pc = "idle"
  /\ \E m \in DispatchTypes, b \in Payloads, n \in DispatchNative, o \in DispatchOcr :
       ex' = [ex EXCEPT !.pc = "called", !.fileBuffer = b,
                        !.fileDetail = [fileName |-> "f1", mimeType |-> m],
                        !.native = n, !.ocr = o]
  /\ UNCHANGED << pipelineVars, dl, workerVars, caller, workload, http >>

\* the call runs from its arguments to its return or its throw
ExtractDone ==
  /\ ex.pc = "called"
  /\ ex' = [ex EXCEPT !.pc = "done",
                       !.result = ExtractTextFromFile(ex.fileBuffer, ex.fileDetail,
                                                      ex.native, ex.ocr)]
  /\ UNCHANGED << pipelineVars, dl, workerVars, caller, workload, http >>

InitExtract ==
  /\ PipelineIdle
  /\ workload = NoWorkload

NextExtract == CallExtractTextFromFile \/ ExtractDone

SpecExtract == InitExtract /\ [][NextExtract]_vars

\* ================================================== processDocument
\* a handler that checks nothing before it answers 202
RejectionNever(sid, user) == 0

\* lines 19-31: the status the request is rejected with, 0 if it is not
Rejection(sid, user) ==
  IF sid = "" THEN 400
  ELSE IF user = None \/ user[1] = "" THEN 401
  ELSE 0

\* res.status(code).json(...)
Send(req, code) ==
  [req EXCEPT !.responses = Append(@, code), !.headersSent = TRUE]

\* POST /process reaches the handler; it runs to its end without an await, and
\* with it initiateProcessing up to its first await
ProcessDocument(r) ==
  /\ http[r].pc = "none"
  /\ pc[r] = "idle"
  /\ \E sid \in SessionIds \cup {""}, user \in {None} \cup {Some(u) : u \in Users \cup {""}} :
       LET req == [http[r] EXCEPT !.pc = "handled", !.sessionId = sid, !.user = user]
           code == Rejection(sid, user)
       IN IF code # 0
            THEN /\ http' = [http EXCEPT ![r] = Send(req, code)]
                 /\ UNCHANGED pipelineVars
            ELSE /\ http' = [http EXCEPT ![r] = IF req.headersSent THEN req
                                                ELSE Send(req, 202)]
                 /\ Begin(r, sid, IF user = None THEN "" ELSE user[1])
                 /\ UNCHANGED budget
  /\ UNCHANGED << dl, workerVars, caller, workload, ex >>

\* requests on a session of one text file with every kind of content asked for
InitController ==
  /\ session = NewSession(<< MimeText >>,
                          [generateSummary |-> TRUE, generateFlashcards |-> TRUE,
                           generateStudyGuide |-> TRUE])
  /\ budget = [r \in Runs |-> 0]
  /\ InitRuns
  /\ workload = NoWorkload

NextController ==
  \E r \in Runs :
    \/ ProcessDocument(r)
    \/ Fetch(r)
    \/ MarkProcessing(r)
    \/ LoopHead(r)
    \/ Download(r)
    \/ Extract(r)
    \/ Split(r)
    \/ GenSummary(r)
    \/ GenFlashcards(r)
    \/ GenStudyGuide(r)
    \/ FinalUpdate(r)
    \/ Catch(r)

SpecController == InitController /\ [][NextController]_vars

\* the steps of run r after the handler started it: each is an await of the
\* store, a download, an extraction or the chat model being answered
RunStep(r) ==
  \/ Fetch(r)
  \/ MarkProcessing(r)
  \/ LoopHead(r)
  \/ Download(r)
  \/ Extract(r)
  \/ Split(r)
  \/ GenSummary(r)
  \/ GenFlashcards(r)
  \/ GenStudyGuide(r)
  \/ FinalUpdate(r)
  \/ Catch(r)

\* every external call eventually returns or fails: no run waits for ever
SpecLive == SpecController /\ \A r \in Runs : WF_vars(RunStep(r))

\* ====================================================== properties
NumFiles == Len(session.files)
M(r) == Len(successfulFiles[r])
Finished(r) == pc[r] \in {"returned", "raised"}
Upto(n) == [k \in 1..n |-> k]
IsTerminal(w) == w \in Terminal
TerminalWrites(r) == SelectSeq(writes[r], IsTerminal)
LastWrite(r) == IF writes[r] = << >> THEN "none" ELSE writes[r][Len(writes[r])]

\* the run has left the file loop (generating, returned, or raised after it)
PastLoop(r) ==
  \/ pc[r] \in {"gen_summary", "gen_flashcards", "gen_study_guide", "final_update",
                "returned"}
  \/ /\ pc[r] \in {"catch", "raised"}
     /\ error[r] \in {NoTextMessage(processingErrors[r]), FinalUpdateFailedMessage}

StatusFor(m, n) == IF m = n THEN "completed" ELSE "completed_with_errors"

\* C1 as stated: after a run over N files of which M gave text, the persisted
\* status is completed if M = N, completed_with_errors if 0 < M < N, failed if M = 0.
C1_Original ==
  \A r \in Runs :
    (Finished(r) /\ PastLoop(r)) =>
      /\ (M(r) = NumFiles => session.status = "completed")
      /\ ((0 < M(r) /\ M(r) < NumFiles) => session.status = "completed_with_errors")
      /\ (M(r) = 0 => session.status = "failed")

\* C1 amended: a run with M = 0 (N = 0 included) makes no final update and raises,
\* persisting failed if the store accepts that; a run that returns had M > 0 and
\* persisted completed if M = N, completed_with_errors if M < N; a run with M > 0
\* whose final update the store rejected raises and persists failed or nothing.
C1_TerminalStatus ==
  \A r \in Runs :
    (Finished(r) /\ PastLoop(r)) =>
      /\ M(r) = 0 =>
           /\ pc[r] = "raised"
           /\ error[r] = NoTextMessage(processingErrors[r])
           /\ TerminalWrites(r) \in {<< >>, << "failed" >>}
      /\ pc[r] = "returned" =>
           /\ M(r) > 0
           /\ TerminalWrites(r) = << StatusFor(M(r), NumFiles) >>
      /\ (M(r) > 0 /\ pc[r] = "raised") =>
           /\ error[r] = FinalUpdateFailedMessage
           /\ TerminalWrites(r) \in {<< >>, << "failed" >>}
      /\ session.status = LastWrite(r)

C1_Witness ==
  \E r \in Runs :
    /\ pc[r] = "returned"
    /\ 0 < M(r) /\ M(r) < NumFiles
    /\ session.status = "completed_with_errors"

\* C2: the chat model is invoked only once every file has been handled and the
\* accumulated text is non-empty; a run in which no file gave text never invokes it.
C2_GenerationAfterText ==
  \A r \in Runs :
    /\ llmCalls[r] # << >> =>
         /\ i[r] = NumFiles
         /\ downloads[r] = Upto(NumFiles)
         /\ Len(Trim(fullExtractedText[r])) > 0
         /\ M(r) > 0
    /\ pc[r] \in {"gen_summary", "gen_flashcards", "gen_study_guide"} =>
         /\ i[r] = NumFiles
         /\ Len(Trim(fullExtractedText[r])) > 0
    /\ (Finished(r) /\ M(r) = 0) => llmCalls[r] = << >>

C2_Witness ==
  \E r \in Runs :
    /\ pc[r] = "raised"
    /\ NumFiles > 0 /\ i[r] = NumFiles /\ M(r) = 0
    /\ error[r] = NoTextMessage(processingErrors[r])
    /\ llmCalls[r] = << >>

RaiseMessages(r) ==
  {FetchFailedMessage, NotFoundMessage, UnauthorizedMessage, StatusUpdateFailedMessage,
   NoTextMessage(processingErrors[r]), FinalUpdateFailedMessage}

\* C3: a failed download or extraction never ends the batch: the files are
\* attempted in order 1..N whatever happened to earlier ones, every failure is one
\* more entry of the error list, and no per-file error reaches the outer catch.
C3_BatchNotAborted ==
  \A r \in Runs :
    /\ downloads[r] = Upto(Len(downloads[r]))
    /\ pc[r] \in {"loop", "download", "extract", "split"} =>
         /\ Len(downloads[r]) = i[r] + (IF pc[r] \in {"extract", "split"} THEN 1 ELSE 0)
         /\ Len(processingErrors[r]) + M(r) = i[r] + (IF pc[r] = "split" THEN 1 ELSE 0)
    /\ PastLoop(r) =>
         /\ downloads[r] = Upto(NumFiles)
         /\ Len(processingErrors[r]) + M(r) = NumFiles
    /\ pc[r] \in {"catch", "raised"} => error[r] \in RaiseMessages(r)

C3_Witness ==
  \E r \in Runs :
    /\ pc[r] = "returned"
    /\ downloads[r] = << 1, 2 >>
    /\ successfulFiles[r] = << "f2" >>
    /\ Len(processingErrors[r]) = 1

C5_NotReopened ==
  [][session.status \in Terminal => session'.status = session.status]_vars

NoWork(r) ==
  /\ downloads[r] = << >>
  /\ extractions[r] = << >>
  /\ llmCalls[r] = << >>

\* C8: a run on an absent session, or by a user who is not the owner, fails
\* (not found / fetch failed, resp. unauthorized) without any download,
\* extraction or chat-model call.
C8_RejectedBeforeWork ==
  \A r \in Runs :
    pc[r] \notin {"idle", "fetch"} =>
      /\ ~Applies(sessionId[r]) =>
           /\ pc[r] \in {"catch", "raised"}
           /\ error[r] \in {NotFoundMessage, FetchFailedMessage}
           /\ sessionData[r] = None
           /\ NoWork(r)
      /\ (Applies(sessionId[r]) /\ userId[r] # session.user_id) =>
           /\ pc[r] \in {"catch", "raised"}
           /\ error[r] \in {UnauthorizedMessage, FetchFailedMessage}
           /\ sessionData[r] # None => error[r] = UnauthorizedMessage
           /\ NoWork(r)

C8_Witness ==
  \E r \in Runs :
    /\ pc[r] = "raised"
    /\ userId[r] # session.user_id
    /\ error[r] = UnauthorizedMessage
    /\ NoWork(r)

Requested(prefs) ==
  (IF prefs.generateSummary THEN << "summary" >> ELSE << >>)
    \o (IF prefs.generateFlashcards THEN << "flashcards" >> ELSE << >>)
    \o (IF prefs.generateStudyGuide THEN << "study_guide" >> ELSE << >>)

Kinds(calls) == [k \in 1..Len(calls) |-> calls[k].kind]

\* the field of each call holds the generated content, or that field's
\* placeholder if the call failed; a field not requested stays empty
FieldsMatchCalls(r) ==
  /\ \A k \in 1..Len(llmCalls[r]) :
       LET c == llmCalls[r][k] IN
       /\ c.kind = "summary" =>
            summary[r] = Some(IF c.outcome = "throw" THEN SummaryPlaceholder
                              ELSE SummaryText)
       /\ c.kind = "flashcards" =>
            flashcards[r] = (IF c.outcome = "throw" THEN FlashcardsPlaceholder
                             ELSE IF c.outcome = "unparsable" THEN FlashcardsUnparsed
                             ELSE FlashcardsParsed)
       /\ c.kind = "study_guide" =>
            studyGuide[r] = Some(IF c.outcome = "throw" THEN StudyGuidePlaceholder
                                 ELSE StudyGuideText)
  /\ ~Prefs(r).generateSummary => summary[r] = None
  /\ ~Prefs(r).generateFlashcards => flashcards[r] = << >>
  /\ ~Prefs(r).generateStudyGuide => studyGuide[r] = None

\* C9: a failed chat-model call puts the placeholder in its own field only; every
\* requested kind is still invoked, no such failure reaches the outer catch, and
\* the status persisted on return is decided by the per-file error list alone.
C9_GenerationFailureIsolated ==
  \A r \in Runs :
    /\ (pc[r] \in {"final_update", "returned"}
          \/ (pc[r] \in {"catch", "raised"} /\ error[r] = FinalUpdateFailedMessage)) =>
         /\ Kinds(llmCalls[r]) = Requested(Prefs(r))
         /\ FieldsMatchCalls(r)
    /\ (pc[r] \in {"catch", "raised"} /\ llmCalls[r] # << >>) =>
         error[r] = FinalUpdateFailedMessage
    /\ pc[r] = "returned" =>
         /\ LastWrite(r) = (IF processingErrors[r] = << >> THEN "completed"
                            ELSE "completed_with_errors")
         /\ session.summary = summary[r]
         /\ session.flashcards = flashcards[r]
         /\ session.study_guide = studyGuide[r]

C9_Witness ==
  \E r \in Runs :
    /\ pc[r] = "returned"
    /\ summary[r] = Some(SummaryPlaceholder)
    /\ flashcards[r] = FlashcardsParsed
    /\ studyGuide[r] = Some(StudyGuideText)
    /\ session.status = "completed"

ResultFields(rec) ==
  << rec.summary, rec.flashcards, rec.study_guide, rec.total_text_length,
     rec.total_chunks, rec.successful_files, rec.processing_errors >>

ErrorCount(rec) ==
  IF rec.processing_errors = None THEN 0 ELSE Len(rec.processing_errors[1])

\* a record whose success status and result fields fit together
Coherent(rec) ==
  /\ (rec.status = "completed") <=> (rec.processing_errors = None)
  /\ rec.processing_errors # None => rec.processing_errors[1] # << >>
  /\ Len(rec.successful_files) > 0
  /\ Len(rec.successful_files) + ErrorCount(rec) = Len(rec.files)
  /\ rec.total_text_length > 0
  /\ rec.total_chunks > 0
  /\ rec.preferences.generateSummary <=> (rec.summary # None)
  /\ rec.preferences.generateFlashcards <=> (rec.flashcards # << >>)
  /\ rec.preferences.generateStudyGuide <=> (rec.study_guide # None)

\* the step is one run's final update, carrying that run's values
WritesOwnResults(r) ==
  /\ pc[r] = "final_update" /\ pc'[r] = "returned"
  /\ session'.status = (IF processingErrors[r] = << >> THEN "completed"
                        ELSE "completed_with_errors")
  /\ ResultFields(session') =
       << summary[r], flashcards[r], studyGuide[r], Len(fullExtractedText[r]),
          Len(allTextChunks[r]), successfulFiles[r],
          IF processingErrors[r] = << >> THEN None ELSE Some(processingErrors[r]) >>

\* C10: a success status is persisted in the one update that persists all the
\* result fields of the same run: a record with a success status always carries
\* result fields that fit it, and no other step changes a result field.
C10_ResultsWithStatus ==
  /\ [](session.status \in Success => Coherent(session))
  /\ [][(session' # session /\ session'.status \in Success)
          => \E r \in Runs : WritesOwnResults(r)]_vars
  /\ [][ResultFields(session') # ResultFields(session)
          => session'.status \in Success]_vars

C10_Witness ==
  /\ session.status = "completed_with_errors"
  /\ session.summary # None
  /\ session.processing_errors # None

Range(f) == {f[n] : n \in DOMAIN f}

\* files of run r whose download has started and whose iteration has not ended
InFlight(r) == {k \in Range(downloads[r]) : k > i[r]}

\* C11: within a run the files are handled strictly one after another: a file's
\* download starts only when all files before it have been downloaded, extracted
\* and chunked (or have failed), so at most one file is in flight, and it is in
\* flight exactly while the run extracts or chunks it.
C11_OneFileAtATime ==
  \A r \in Runs :
    /\ Cardinality(InFlight(r)) <= 1
    /\ InFlight(r) \subseteq {i[r] + 1}
    /\ (InFlight(r) # {}) <=> (pc[r] \in {"extract", "split"})
    /\ Range(extractions[r]) \subseteq Range(downloads[r])
    /\ pc[r] = "download" => Range(downloads[r]) = 1..i[r]

C11_Witness ==
  \E r \in Runs :
    /\ pc[r] = "split"
    /\ i[r] = 1
    /\ downloads[r] = << 1, 2 >>
    /\ extractions[r] = << 1, 2 >>
    /\ Len(allTextChunks[r]) = 1

\* run r has persisted processing and has neither persisted a terminal status
\* nor ended
Owning(r) ==
  /\ writes[r] # << >>
  /\ TerminalWrites(r) = << >>
  /\ ~Finished(r)

\* C12: between the processing write of a run and its terminal write no other
\* run writes to the session's record.
C12_OnlyOwnerWrites ==
  [][\A r \in Runs : Owning(r) => \A q \in Runs \ {r} : writes'[q] = writes[q]]_vars

\* C13: at most one initialization of the recognition worker is in flight at any
\* time, whatever the interleaving of the callers: a caller that arrives while an
\* initialization is in flight awaits that one and starts none.
C13_OneInitialization ==
  /\ Cardinality(inits) <= 1
  /\ \A c \in Callers :
       caller[c].pc = "await_init" => \A init \in inits : init.by = caller[c].awaiting

\* the performOCRWithRetry calls that have ended
Ended(c) == caller[c].op = "retry" /\ caller[c].pc = "done"
History(c) == caller[c].attempts
Produced(h) == {k \in 1..Len(h) : h[k].kind = "returned"}
Conf(h, k) == h[k].value[1].confidence
Text(h, k) == h[k].value[1].text
Good(h) == {k \in Produced(h) : Conf(h, k) >= 70 /\ Text(h, k) # << >>}
Value(c) == caller[c].result.value[1]

\* C14: the first attempt whose result has confidence >= 70 and non-empty text
\* ends the call: that result is returned at once and no later attempt is made.
C14_FirstGoodReturned ==
  \A c \in Callers :
    \A k \in Good(History(c)) :
      /\ k = Len(History(c))
      /\ Ended(c)
      /\ caller[c].result.kind = "returned"
      /\ Value(c) = History(c)[k].value[1]
      /\ caller[c].closing = 0

C14_Witness ==
  \E c \in Callers :
    /\ Ended(c)
    /\ caller[c].maxRetries = 3
    /\ Len(History(c)) = 2
    /\ History(c)[1].kind = "returned" /\ Conf(History(c), 1) = 40
    /\ Good(History(c)) = {2}
    /\ Value(c) = [text |-> << "d" >>, confidence |-> 72]

\* the first of the produced results of highest confidence
FirstBest(h) ==
  CHOOSE k \in Produced(h) :
    \A j \in Produced(h) : Conf(h, j) < Conf(h, k) \/ (Conf(h, j) = Conf(h, k) /\ j >= k)

\* C15 as stated: when all maxRetries attempts are used and one of them produced
\* a result, the call returns the produced result of highest confidence.
C15_Original ==
  \A c \in Callers :
    (Ended(c) /\ Len(History(c)) = caller[c].maxRetries /\ Produced(History(c)) # {}) =>
      /\ caller[c].result.kind = "returned"
      /\ \A j \in Produced(History(c)) : Conf(History(c), j) <= Value(c).confidence

\* C15 amended: when all maxRetries attempts are used, one of them produced a
\* result and none had confidence >= 70 with non-empty text, the call returns
\* the first produced result of highest confidence, whatever other attempts
\* raised; when the last attempt has confidence >= 70 and non-empty text, that
\* result is returned even if an earlier one with empty text had a higher confidence.
C15_BestReturned ==
  \A c \in Callers :
    (Ended(c) /\ Len(History(c)) = caller[c].maxRetries /\ Produced(History(c)) # {}) =>
      /\ caller[c].result.kind = "returned"
      /\ Value(c) = History(c)[IF Good(History(c)) # {} THEN Len(History(c))
                                ELSE FirstBest(History(c))].value[1]

C15_Witness ==
  \E c \in Callers :
    /\ Ended(c)
    /\ caller[c].maxRetries = 3
    /\ Len(History(c)) = 3
    /\ History(c)[1].kind = "raised"
    /\ Produced(History(c)) = {2, 3}
    /\ Conf(History(c), 2) = 60 /\ Conf(History(c), 3) = 40
    /\ Value(c).confidence = 60

\* C16: the call fails exactly when every attempt raised; it then returns no
\* result and raises the error of the last attempt (the error of line 295 when
\* there was no attempt at all).
C16_FailsIffAllRaised ==
  \A c \in Callers :
    Ended(c) =>
      /\ caller[c].result.kind \in {"returned", "raised"}
      /\ caller[c].result.kind = "raised" <=> Produced(History(c)) = {}
      /\ caller[c].result.kind = "raised" =>
           /\ caller[c].result.value = None
           /\ Len(History(c)) = caller[c].maxRetries
           /\ caller[c].result.error =
                IF History(c) = << >> THEN AllAttemptsFailed
                ELSE History(c)[Len(History(c))].error

C16_Witness ==
  \E c \in Callers :
    /\ Ended(c)
    /\ Len(History(c)) = 3
    /\ Produced(History(c)) = {}
    /\ History(c)[1].error = OcrTimeout
    /\ History(c)[3].error = RecognitionFailed(EngineError)
    /\ caller[c].result.error = RecognitionFailed(EngineError)

\* C17: when an attempt produced non-empty text, the result returned once the
\* attempts are used up has non-empty text.
C17_NonEmptyKept ==
  \A c \in Callers :
    (/\ Ended(c)
     /\ Len(History(c)) = caller[c].maxRetries
     /\ \E k \in Produced(History(c)) : Text(History(c), k) # << >>) =>
      /\ caller[c].result.kind = "returned"
      /\ Value(c).text # << >>

\* the answers of the strategies called so far, then transport errors
Answers ==
  [k \in 1..NumStrategies |->
     IF k <= Len(dl.calls) THEN dl.calls[k].outcome ELSE [kind |-> "throw", data |-> << >>]]

NonEmptyPayload(o) == o.kind = "data" /\ o.data # << >>

\* C18: _downloadFile calls its strategies in list order, one at a time; the
\* first one that yields a non-empty payload ends the call, which returns that
\* payload, and no later strategy is called; it gives up only after the last one.
C18_FirstPayloadReturned ==
  /\ \A n \in 1..Len(dl.calls) :
       /\ dl.calls[n].strategy = n - 1
       /\ NonEmptyPayload(dl.calls[n].outcome) =>
            /\ n = Len(dl.calls)
            /\ dl.pc = "returned"
            /\ dl.result.data = dl.calls[n].outcome.data
  /\ dl.pc = "returned" => NonEmptyPayload(dl.calls[Len(dl.calls)].outcome)
  /\ dl.pc = "raised" => Len(dl.calls) = NumStrategies
  /\ dl.pc \in {"returned", "raised"} =>
       LET res == DownloadFile(dl.fileName, Answers) IN
       /\ res.ok <=> dl.pc = "returned"
       /\ res.tried = Len(dl.calls)
       /\ res.data = dl.result.data
       /\ res.error = dl.result.error

C18_Witness ==
  /\ dl.pc = "returned"
  /\ Len(dl.calls) = 2
  /\ dl.calls[1].outcome.kind = "throw"
  /\ dl.calls[2].outcome = [kind |-> "data", data |-> << "a" >>]
  /\ dl.result.data = << "a" >>

\* msg ends with tail
EndsWith(msg, tail) ==
  /\ Len(msg) >= Len(tail)
  /\ SubSeq(msg, Len(msg) - Len(tail) + 1, Len(msg)) = tail

\* C19: a response of zero bytes is a failed strategy although the transport
\* reported success; the call fails exactly when every strategy failed or was
\* empty, with an error that carries the error of the last strategy; a buffer
\* that is returned is never empty.
C19_EmptyIsFailure ==
  /\ dl.result.kind = "returned" => dl.result.data # << >>
  /\ \A n \in 1..Len(dl.calls) :
       dl.calls[n].outcome = [kind |-> "data", data |-> << >>] =>
         /\ n = Len(dl.calls) =>
              /\ dl.pc \in {"wait", "strategy", "raised"}
              /\ dl.lastError = Some(<< "Downloaded file is empty: ", dl.fileName >>)
         /\ (n < NumStrategies /\ dl.pc \in {"returned", "raised"}) => n < Len(dl.calls)
  /\ dl.pc = "raised" <=>
       /\ Len(dl.calls) = NumStrategies
       /\ \A n \in 1..Len(dl.calls) : ~NonEmptyPayload(dl.calls[n].outcome)
  /\ dl.pc = "raised" =>
       /\ dl.result.kind = "raised"
       /\ dl.result.data = << >>
       /\ EndsWith(dl.result.error,
                   StrategyError(dl.calls[NumStrategies].outcome, dl.fileName))

C19_Witness ==
  /\ dl.pc = "raised"
  /\ dl.calls[1].outcome = [kind |-> "throw", data |-> << >>]
  /\ dl.calls[2].outcome = [kind |-> "data", data |-> << >>]
  /\ dl.result.error = << "All download strategies failed for ", "f2", ". Last error: ",
                          "Downloaded file is empty: ", "f2" >>

\* C20: the URL is tested for well-formedness before any strategy is tried: with
\* a malformed URL the call fails at once, no strategy is called and no delay served.
C20_UrlValidatedFirst ==
  dl.url = "malformed" => (dl.calls = << >> /\ dl.waits = 0)

\* ------------------------------------------------ the extraction dispatcher
ExDone == ex.pc = "done"
ExMime == ex.fileDetail.mimeType
NativeRaised == ~ex.native.ok
NativeEmpty == ex.native.ok /\ Len(Trim(ex.native.text)) = 0
OcrGaveText == ex.ocr.ok /\ Len(Trim(ex.ocr.text)) # 0

\* C21: for a PDF, OCR is attempted both when the native parse raises and when
\* it returns empty text, and the extraction fails only after OCR was attempted
\* (the code attempts OCR only when the parse raises)
C21_PdfFallsBackOnEmpty ==
  (ExDone /\ IsPdf(ExMime)) =>
     /\ (NativeRaised \/ NativeEmpty) => ex.result.ocr
     /\ ~ex.result.ok => ex.result.ocr

\* C22: a PDF whose native parse raises goes to OCR and returns its non-empty
\* text; a word-processor document whose parse raises or yields empty text
\* fails with that error and OCR is never invoked
C22_FallbackAsymmetry ==
  ExDone =>
     /\ (IsPdf(ExMime) /\ NativeRaised) =>
           /\ ex.result.ocr
           /\ OcrGaveText => (ex.result.ok /\ ex.result.text = ex.ocr.text)
     /\ (ExMime \in {MimeDocx, MimeMsword} /\ (NativeRaised \/ NativeEmpty)) =>
           /\ ~ex.result.ok
           /\ ~ex.result.ocr
           /\ ex.result.error =
                IF NativeRaised THEN NativeError
                ELSE << "No text extracted from Word document: ", ex.fileDetail.fileName >>

C22_Witness ==
  /\ ExDone /\ IsPdf(ExMime) /\ NativeRaised /\ OcrGaveText /\ ex.result.ok

C22_WitnessWord ==
  /\ ExDone /\ ExMime = MimeMsword /\ NativeEmpty /\ ~ex.result.ok

\* the text the selected path ends with: OCR's where OCR was asked, else the
\* parser's where a parser was asked, else the file's own bytes
PathText ==
  IF ex.result.ocr THEN (IF ex.ocr.ok THEN ex.ocr.text ELSE << >>)
  ELSE IF ex.result.native THEN (IF ex.native.ok THEN ex.native.text ELSE << >>)
  ELSE ex.fileBuffer

\* C23: every successful return is non-empty after trimming, on every branch,
\* and a path that ends with empty or whitespace text fails instead
C23_NeverReturnsEmpty ==
  ExDone =>
     /\ ex.result.ok => (Len(Trim(ex.result.text)) > 0 /\ ex.result.text = PathText)
     /\ Len(Trim(PathText)) = 0 => (~ex.result.ok /\ Len(ex.result.error) > 0)

C23_Witness ==
  /\ ExDone /\ ExMime = MimeOther /\ ex.result.ocr
  /\ ex.ocr.ok /\ ex.ocr.text = << " " >> /\ ~ex.result.ok

\* ------------------------------------------------- the states of the worker
StatusStep == << WorkerStatus, WorkerStatus' >>
Closing == \E c \in Callers : caller[c].pc \in {"perform_close", "retry_close"}

RECURSIVE StartOf(_, _)
\* where the k-th of the messages errs starts in a text that has one token
\* before them and one between any two of them
StartOf(errs, k) == IF k = 1 THEN 2 ELSE StartOf(errs, k - 1) + Len(errs[k - 1]) + 1

OccursAt(msg, part, at) ==
  /\ at + Len(part) - 1 <= Len(msg)
  /\ SubSeq(msg, at, at + Len(part) - 1) = part

\* the k-th entry of the error list is about the k-th file and has its cause
IsErrorOf(msg, fileName) ==
  /\ Len(msg) > 3
  /\ SubSeq(msg, 1, 3) = << "Failed to process ", fileName, ": " >>

AllFilesFailed(r) ==
  /\ pc[r] \in {"catch", "raised"}
  /\ sessionData[r] # None
  /\ Len(Files(r)) > 0
  /\ i[r] = Len(Files(r))
  /\ successfulFiles[r] = << >>

\* C25: when every file fails, the error the run raises, and the error_message
\* it persists, contains the message of every per-file error, in file order
C25_AllErrorsReported ==
  \A r \in Runs :
    AllFilesFailed(r) =>
      /\ Len(processingErrors[r]) = Len(Files(r))
      /\ \A k \in 1..Len(Files(r)) :
            /\ IsErrorOf(processingErrors[r][k], Files(r)[k].fileName)
            /\ OccursAt(error[r], processingErrors[r][k],
                        StartOf(processingErrors[r], k))
      /\ pc[r] = "raised" =>
            /\ result[r].kind = "raised" /\ result[r].error = error[r]
            /\ LastWrite(r) = "failed" => session.error_message = Some(error[r])

C25_Witness ==
  /\ AllFilesFailed("r1") /\ pc["r1"] = "raised" /\ Len(Files("r1")) = 2
  /\ session.error_message = Some(error["r1"])
  /\ processingErrors["r1"][1] # processingErrors["r1"][2]

\* the files whose iteration has produced its outcome: those before i, and
\* file i + 1 once its text was accepted and is being split
Decided(r) == i[r] + (IF pc[r] = "split" THEN 1 ELSE 0)
NameOf(r, k) == Files(r)[k].fileName
Succeeded(r) == {k \in 1..Decided(r) : NameOf(r, k) \in Range(successfulFiles[r])}
Failed(r) ==
  {k \in 1..Decided(r) :
     \E j \in 1..Len(processingErrors[r]) : IsErrorOf(processingErrors[r][j], NameOf(r, k))}

RECURSIVE NamesIn(_, _, _)
\* the names of the files of set ks, in file order, from file k on
NamesIn(r, ks, k) ==
  IF k > Len(Files(r)) THEN << >>
  ELSE (IF k \in ks THEN << NameOf(r, k) >> ELSE << >>) \o NamesIn(r, ks, k + 1)

\* C27: every file produces exactly one outcome: its name is once in the
\* success list or once in a message of the error list, never both and never
\* neither, the two lists are in file order, and after the loop their lengths
\* add up to the number of files
C27_OneOutcomePerFile ==
  \A r \in Runs :
    (sessionData[r] # None /\ pc[r] \notin {"fetch", "idle"}) =>
      /\ Succeeded(r) \cap Failed(r) = {}
      /\ Succeeded(r) \cup Failed(r) = 1..Decided(r)
      /\ successfulFiles[r] = NamesIn(r, Succeeded(r), 1)
      /\ [j \in 1..Len(processingErrors[r]) |-> processingErrors[r][j][2]]
           = NamesIn(r, Failed(r), 1)
      /\ \A j \in 1..Len(processingErrors[r]) :
            \E k \in Failed(r) : IsErrorOf(processingErrors[r][j], NameOf(r, k))
      /\ PastLoop(r) =>
            /\ Decided(r) = Len(Files(r))
            /\ Len(successfulFiles[r]) + Len(processingErrors[r]) = Len(Files(r))

\* a mixed session: the first file failed, the second succeeded
C27_Witness ==
  /\ PastLoop("r1") /\ Len(Files("r1")) = 2
  /\ successfulFiles["r1"] = << "f2" >>
  /\ Len(processingErrors["r1"]) = 1

\* ------------------------------------------------------------ the chunks
RECURSIVE Flatten(_)
Flatten(seqs) == IF seqs = << >> THEN << >> ELSE Head(seqs) \o Flatten(Tail(seqs))

IsContent(token) == token \notin Whitespace

\* the files whose chunks have been appended: the successful ones, but for the
\* one whose text is being split
Chunked(r) ==
  IF pc[r] = "split" THEN SubSeq(successfulFiles[r], 1, Len(successfulFiles[r]) - 1)
  ELSE successfulFiles[r]

RECURSIVE Sources(_)
\* the files the chunks come from, each named once per run of its chunks
Sources(chunks) ==
  IF chunks = << >> THEN << >>
  ELSE IF Len(chunks) > 1 /\ chunks[1].source = chunks[2].source
    THEN Sources(Tail(chunks))
  ELSE << chunks[1].source >> \o Sources(Tail(chunks))

\* C28: chunks exist only for files whose extraction succeeded, in file order
\* and, within a file, in split order; the persisted total_chunks is the number
\* of accumulated chunks and total_text_length the length of the accumulated text
C28_ChunksFollowFiles ==
  \A r \in Runs :
    /\ Sources(allTextChunks[r]) = Chunked(r)
    /\ pc[r] # "split" =>
          Flatten([k \in 1..Len(allTextChunks[r]) |-> allTextChunks[r][k].pageContent])
            = SelectSeq(fullExtractedText[r], IsContent)
    /\ (r = "r1" /\ pc[r] = "returned" /\ session.status \in Success) =>
          /\ session.total_chunks = Len(allTextChunks[r])
          /\ session.total_text_length = Len(fullExtractedText[r])
          /\ session.successful_files = Sources(allTextChunks[r])

\* two successful files, the first of them split into two chunks
C28_Witness ==
  /\ pc["r1"] = "returned" /\ session.total_chunks = 3
  /\ successfulFiles["r1"] = << "f1", "f2" >>
  /\ allTextChunks["r1"][1].pageContent = << "b" >>
  /\ allTextChunks["r1"][2].pageContent = << "c" >>
  /\ allTextChunks["r1"][3].source = "f2"

\* ------------------------------------------------------ the HTTP responses
Handled(r) == http[r].pc = "handled"
NotStarted(r) == pc[r] = "idle" /\ writes[r] = << >> /\ NoWork(r)

\* C26: one response per request: 400 when sessionId is missing, 401 when the
\* user or its uid is missing, neither starting the processing; otherwise 202,
\* sent before the background run does anything, and nothing the run does later
\* adds a second response
C26_OneResponse ==
  \A r \in Runs :
    /\ ~Handled(r) => (http[r].responses = << >> /\ NotStarted(r))
    /\ Handled(r) =>
          /\ Len(http[r].responses) = 1
          /\ http[r].sessionId = "" => (http[r].responses = << 400 >> /\ NotStarted(r))
          /\ (http[r].sessionId # "" /\ (http[r].user = None \/ http[r].user = Some(""))) =>
                (http[r].responses = << 401 >> /\ NotStarted(r))
          /\ (http[r].sessionId # "" /\ http[r].user # None /\ http[r].user # Some("")) =>
                /\ http[r].responses = << 202 >>
                /\ pc[r] # "idle"
                /\ sessionId[r] = http[r].sessionId
                /\ userId[r] = http[r].user[1]

\* the background run of an accepted request has failed
C26_Witness ==
  /\ http["r1"].responses = << 202 >> /\ pc["r1"] = "raised"
  /\ http["r2"].responses = << 401 >>

\* ------------------------------------------------- between two attempts
\* C29: whenever a further attempt follows an attempt, the worker was torn down
\* and the fixed delay elapsed in between, so the two attempts do not use the
\* same worker instance (an attempt of confidence >= 70 with empty text, short
\* of the last one, is followed at once by the next on the same worker)
C29_FreshWorkerPerAttempt ==
  \A c \in Callers :
    \A k \in 2..Len(History(c)) :
      /\ History(c)[k].waited
      /\ History(c)[k].worker # 0 => History(c)[k].worker # History(c)[k - 1].worker

\* ------------------------------------------------------------ timeouts
\* the attempts of c's call whose recognition timed out
TimedOut(c) ==
  {k \in 1..Len(History(c)) :
     History(c)[k].error = OcrTimeout /\ History(c)[k].worker # 0}

Quiet == \A c \in Callers : caller[c].pc \in {"idle", "done"}

\* C30: a recognition that times out fails that attempt only: the call goes on
\* to the next attempt while attempts remain, and once the calls have ended
\* nothing is left that keeps a later call from being served
C30_TimeoutFailsAttemptOnly ==
  /\ \A c \in Callers :
       \A k \in TimedOut(c) :
         /\ History(c)[k].kind = "raised"
         /\ k < caller[c].maxRetries =>
               IF k = Len(History(c))
                 THEN /\ caller[c].pc # "done"
                      /\ caller[c].attempt = k => caller[c].pc \in {"retry_close", "delay"}
                      /\ caller[c].attempt # k =>
                            (caller[c].attempt = k + 1 /\ caller[c].waited)
                 ELSE History(c)[k + 1].waited
         /\ (k = caller[c].maxRetries /\ Ended(c)) =>
               caller[c].result.kind = "returned" <=> Produced(History(c)) # {}
  /\ Quiet => (~isInitializing /\ initializationPromise = "null" /\ inits = {})

\* a call made after a call that timed out and failed has returned a result
C30_Witness ==
  /\ Ended("c1") /\ TimedOut("c1") = {1, 2} /\ caller["c1"].result.kind = "raised"
  /\ caller["c2"].after = {"c1"}
  /\ Ended("c2") /\ caller["c2"].result.kind = "returned"

\* ------------------------------------------------------ a corrupted worker
\* the attempts of c's call that failed in recognition with an error that
\* names the worker
Corrupted(c) ==
  {k \in 1..Len(History(c)) :
     /\ History(c)[k].worker # 0
     /\ Len(History(c)[k].error) > 1
     /\ History(c)[k].error[1] = "OCR recognition failed: "
     /\ Includes(Tail(History(c)[k].error), "Worker")}

\* C31: when performOCR fails with an error that names the worker, terminate()
\* was called on the worker and the handle cleared before the error reached
\* the retry loop, so no later attempt of the call runs on that instance: it
\* obtains a worker created afterwards (true of one caller; with two callers a
\* closeWorker that finds the handle already cleared by the other caller's
\* teardown terminates nothing)
C31_CorruptedWorkerDiscarded ==
  \A c \in Callers :
    \A k \in Corrupted(c) :
      LET w == History(c)[k].worker IN
      /\ w \in terminated
      /\ worker # w
      /\ caller[c].used # w
      /\ \A j \in (k + 1)..Len(History(c)) :
            History(c)[j].worker # 0 => History(c)[j].worker > w

\* ------------------------------------------------- dispatch by media type
\* C32: image/* and the presentation types go straight to OCR, no parser being
\* invoked; text/* is decoded as UTF-8 and OCR is never invoked
C32_DirectRoutes ==
  ExDone =>
     /\ (ExMime[1] = "image" \/ ExMime \in {MimePptx, MimePpt}) =>
           /\ ex.result.ocr /\ ~ex.result.native
           /\ ex.result.ok = OcrGaveText
           /\ ex.result.ok => ex.result.text = ex.ocr.text
     /\ ExMime[1] = "text" =>
           /\ ~ex.result.ocr /\ ~ex.result.native
           /\ ex.result.ok = (Len(Trim(ex.fileBuffer)) > 0)
           /\ ex.result.ok => ex.result.text = ex.fileBuffer
           /\ ~ex.result.ok => ex.result.error = << "Empty text file: ", ex.fileDetail.fileName >>

\* an empty text file fails though OCR would have found text
C32_Witness ==
  /\ ExDone /\ ExMime = MimeText /\ Len(Trim(ex.fileBuffer)) = 0
  /\ OcrGaveText /\ ~ex.result.ok /\ ~ex.result.ocr

\* C33: a file of unknown media type is decoded as UTF-8 first; OCR is invoked
\* only if the decoded text is empty after trimming, not when it is usable
C33_DecodeBeforeOcr ==
  (ExDone /\ ExMime = MimeOther) =>
     /\ ~ex.result.native
     /\ ex.result.ocr = (Len(Trim(ex.fileBuffer)) = 0)
     /\ ~ex.result.ocr => (ex.result.ok /\ ex.result.text = ex.fileBuffer)
     /\ ex.result.ocr =>
           /\ ex.result.ok = OcrGaveText
           /\ ex.result.ok => ex.result.text = ex.ocr.text

\* usable bytes are returned though OCR would have answered another text
C33_Witness ==
  /\ ExDone /\ ExMime = MimeOther /\ ex.fileBuffer = << "a" >>
  /\ ex.ocr.ok /\ ex.ocr.text = << "d" >>
  /\ ex.result.ok /\ ex.result.text = << "a" >> /\ ~ex.result.ocr

\* a fallback transition occurred: a parser or the decoding came first, then OCR
FellBack(res, fileDetail) ==
  res.ocr /\ (res.native \/ fileDetail.mimeType = MimeOther)

\* the failures the file can be reported with when no fallback occurred
FailuresWithoutFallback(fileDetail) ==
  {ExtractTextFromFile(b, fileDetail, n, o).error :
     << b, n, o >> \in {t \in Payloads \X DispatchNative \X DispatchOcr :
                         LET res == ExtractTextFromFile(t[1], fileDetail, t[2], t[3])
                         IN ~res.ok /\ ~FellBack(res, fileDetail)}}

\* C34: a failure after a fallback is distinguishable from a failure without
\* one: its message is none of those the file fails with when no fallback
\* occurred, and it names both the primary and the fallback attempt (a PDF
\* fails with the same message whether OCR was tried or not)
C34_FallbackVisibleInFailure ==
  (ExDone /\ ~ex.result.ok /\ FellBack(ex.result, ex.fileDetail)) =>
     ex.result.error \notin FailuresWithoutFallback(ex.fileDetail)

\* ------------------------------------------------- generation on request
Flag(prefs, kind) ==
  IF kind = "summary" THEN prefs.generateSummary
  ELSE IF kind = "flashcards" THEN prefs.generateFlashcards
  ELSE prefs.generateStudyGuide

CallsOf(r, kind) == {k \in 1..Len(llmCalls[r]) : llmCalls[r][k].kind = kind}

NothingAsked(prefs) ==
  ~prefs.generateSummary /\ ~prefs.generateFlashcards /\ ~prefs.generateStudyGuide

\* C35: each kind of content is generated at most once per run and only if its
\* flag is set; a kind whose flag is unset is persisted as null (flashcards as
\* the empty list); with no flag set a run makes no chat-model call and still
\* returns with a success status
C35_GeneratedOnRequestOnly ==
  /\ \A r \in Runs :
       /\ \A kind \in {"summary", "flashcards", "study_guide"} :
             /\ Cardinality(CallsOf(r, kind)) <= 1
             /\ CallsOf(r, kind) # {} => (sessionData[r] # None /\ Flag(Prefs(r), kind))
       /\ \A k \in 1..Len(llmCalls[r]) :
             llmCalls[r][k].kind \in {"summary", "flashcards", "study_guide"}
       /\ (pc[r] = "returned" /\ NothingAsked(session.preferences)) =>
             (llmCalls[r] = << >> /\ LastWrite(r) \in Success)
  /\ session.status \in Success =>
       /\ ~session.preferences.generateSummary => session.summary = None
       /\ ~session.preferences.generateFlashcards => session.flashcards = << >>
       /\ ~session.preferences.generateStudyGuide => session.study_guide = None

C35_Witness ==
  /\ NothingAsked(session.preferences)
  /\ pc["r1"] = "returned" /\ llmCalls["r1"] = << >> /\ downloads["r1"] # << >>
  /\ session.status = "completed"
  /\ session.summary = None /\ session.flashcards = << >> /\ session.study_guide = None

\* ------------------------------------------------- runs of other users
\* C36: a run requested by a user who is not the owner of the session writes
\* nothing to the session's record: no step of such a run changes it (the
\* outer catch of the run persists failed and the unauthorized message)
C36_UnauthorizedRunWritesNothing ==
  [][\A r \in Runs :
       (pc'[r] # pc[r] /\ pc[r] # "idle" /\ userId[r] # session.user_id) =>
          (session' = session /\ writes'[r] = writes[r])]_vars

\* ------------------------------------------------- recognitions in flight
Recognizing(c) == caller[c].pc = "recognize"

\* C37: no caller's closeWorker terminates the worker on which another caller's
\* recognition is in flight (nothing makes a teardown wait for, or even know
\* of, the recognitions of other callers)
C37_NoTeardownUnderRecognition ==
  \A c \in Callers :
    Recognizing(c) =>
      /\ \A d \in Callers \ {c} : caller[d].closing # caller[c].using
      /\ caller[c].using \notin terminated

Bounded(c) ==
  /\ Len(History(c)) <= caller[c].maxRetries
  /\ caller[c].maxRetries > 0 => caller[c].attempt <= caller[c].maxRetries
  /\ caller[c].maxRetries = 0 =>
        /\ History(c) = << >> /\ created = 0
        /\ caller[c].op = "retry" =>
              /\ caller[c].pc = "done"
              /\ caller[c].result.kind = "raised"
              /\ caller[c].result.error = AllAttemptsFailed
  /\ caller[c].attempt = caller[c].maxRetries =>
        caller[c].pc \notin {"retry_close", "delay"}
  /\ (caller[c].op = "retry" /\ Len(History(c)) = caller[c].maxRetries) =>
        caller[c].pc = "done"

\* C39: performOCRWithRetry ends after at most maxRetries calls of performOCR;
\* with maxRetries 0 it makes no attempt and fails; after its last attempt it
\* neither tears down the worker nor waits
C39_RetryTerminates ==
  /\ [](\A c \in Callers : caller[c].op = "retry" => Bounded(c))
  /\ \A c \in Callers : (caller[c].op = "retry") ~> Ended(c)

\* three attempts were made, the last one timed out, and the worker it used is
\* still up when the call has ended
C39_Witness ==
  /\ Ended("c1") /\ caller["c1"].maxRetries = 3 /\ Len(History("c1")) = 3
  /\ History("c1")[3].error = OcrTimeout
  /\ worker = 3 /\ History("c1")[3].worker = 3 /\ 3 \notin terminated

\* ------------------------------------------------- the initialization guard
\* c awaited an initialization and this step hands it a failure: the attempt
\* is over without a worker, or the health check answers false
InitializationFailedFor(c) ==
  /\ caller[c].pc = "await_init"
  /\ \/ /\ Len(caller'[c].attempts) = Len(caller[c].attempts) + 1
        /\ caller'[c].attempts[Len(caller'[c].attempts)].kind = "raised"
     \/ /\ caller[c].op = "health"
        /\ caller'[c].result.kind = "unhealthy"

\* c's attempt k + 1 follows an attempt that got no worker
AfterFailedInitialization(c) ==
  /\ History(c) # << >>
  /\ History(c)[Len(History(c))].worker = 0
  /\ caller[c].attempt = Len(History(c)) + 1

\* the next performOCR of c after its failed initialization starts while the
\* handle is still null
NextCallStarts(c) ==
  /\ AfterFailedInitialization(c)
  /\ caller[c].pc = "attempt" /\ caller'[c].pc # "attempt"
  /\ worker = 0

\* C40: isInitializing is true exactly when an initialization promise is
\* recorded, and a recorded promise is one of an initialization in flight; when
\* an initialization fails the handle is null, the flag false and no promise
\* recorded; and the next call that finds the handle null awaits a recorded
\* initialization, a fresh one of its own when none was recorded
C40_GuardNeverStuck ==
  /\ [](isInitializing = (initializationPromise # "null"))
  /\ [](initializationPromise # "null" =>
          \E init \in inits : init.by = initializationPromise)
  /\ [][(\E c \in Callers : InitializationFailedFor(c)) =>
          (worker' = 0 /\ ~isInitializing' /\ initializationPromise' = "null")]_vars
  /\ [][\A c \in Callers : NextCallStarts(c) =>
          /\ caller'[c].pc = "await_init"
          /\ isInitializing' /\ initializationPromise' = caller'[c].awaiting
          /\ ~isInitializing =>
                /\ caller'[c].awaiting = c
                /\ [by |-> c, stage |-> "creating"] \in inits']_vars

\* after an initialization that failed, the next attempt has started another
C40_Witness ==
  /\ AfterFailedInitialization("c1") /\ caller["c1"].pc = "await_init"
  /\ History("c1")[1].error = OcrTimeout
  /\ isInitializing /\ initializationPromise = "c1" /\ worker = 0 /\ created = 0

====
